---- MODULE Spec2Model ----
(***************************************************************************)
(* A model of the shre backtracking regular expression engine: the         *)
(* matcher graph (cores, branches, atoms), the backtrack stack, the        *)
(* capture store, the matching functions of core.c and atom.c, the search  *)
(* loop of shre.c, the character class tree of class.c and the UTF-8       *)
(* translation of u8_translate.c.                                          *)
(*                                                                         *)
(* Pointers into the input are positions 1..Len(input)+1; the position     *)
(* Len(input)+1 holds the NUL terminator and position 0 is the NULL        *)
(* pointer.  An optional pointer to an owned object (an inner stack, a     *)
(* nest snapshot, a child node) is <<>> for NULL and <<obj>> otherwise.    *)
(***************************************************************************)
EXTENDS Integers, Sequences, FiniteSets, TLC

\* ------------------------------------------------------------------------
\* Bounds and program constants
\* ------------------------------------------------------------------------

\* longest input drawn from the alphabet (the listed scenario inputs are longer)
MaxLen == 3

\* depth of nested core_match calls the native stack is taken to hold
MaxDepth == 6

\* highest codepoint given to the class operations
MaxCp == 4

\* number of operations on a class
MaxOps == 3

\* distance from a case edge of the codepoints given to u8_new
U8Window == 2

\* longest string given to u8_decode
U8MaxBytes == 4

\* atom.h: maximum number of repetitions
MAXREPS == 1000000000

\* the NUL terminator of the input
NUL == 0

\* the codepoints used in patterns and inputs (ASCII, one byte each)
Ch == [a |-> 97, b |-> 98, c |-> 99, d |-> 100, X |-> 88, dash |-> 45]

\* ------------------------------------------------------------------------
\* class.c: searching (the tree is [lo, hi, l, r], children optional)
\* ------------------------------------------------------------------------

\* class_construct
ClassConstruct(lo, hi) == [lo |-> lo, hi |-> hi, l |-> <<>>, r |-> <<>>]

RECURSIVE ClassSearchOpt(_, _)
\* the while loop of class_search on an optional node
ClassSearchOpt(t, cp) ==
   IF t = <<>> THEN FALSE
   ELSE IF cp < t[1].lo THEN ClassSearchOpt(t[1].l, cp)
   ELSE IF cp > t[1].hi THEN ClassSearchOpt(t[1].r, cp)
   ELSE TRUE

\* class_search
ClassSearch(tree, cp) == ClassSearchOpt(<<tree>>, cp)

\* ------------------------------------------------------------------------
\* class.c: the tree and its transformation to and from a vine
\* ------------------------------------------------------------------------

\* the lo of the root of an empty class.  The source has 0xFFFFFFFF; the
\* model has the largest integer TLC computes with.  The code uses it as
\* a lo that no codepoint (at most 0x10FFFF) reaches.
EmptyVal == 2147483647

\* the EmptyTree macro
EmptyTree(tree) == tree.lo = EmptyVal

\* fmin and fmax as vine_insert uses them
FMin(x, y) == IF x <= y THEN x ELSE y
FMax(x, y) == IF x >= y THEN x ELSE y

\* a urange32_t
Range(lo, hi) == [lo |-> lo, hi |-> hi]

\* class_new: the root of an empty class
ClassNew == ClassConstruct(EmptyVal, 0)

RECURSIVE TreeHeight(_)
\* tree_height of an optional node
TreeHeight(t) ==
   IF t = <<>> THEN 0
   ELSE FMax(TreeHeight(t[1].l), TreeHeight(t[1].r)) + 1

\* balance_factor
BalanceFactor(tree) == TreeHeight(tree.l) - TreeHeight(tree.r)

\* rotate_right: the node at parent keeps its address and takes the
\* range of its left child (swap_ranges); the child node takes the
\* parent's range and becomes the right child.  assert(parent->lchild)
\* holds at every call: the callers test or set the left child.
RotateRight(parent) ==
   [lo |-> parent.l[1].lo, hi |-> parent.l[1].hi,
    l |-> parent.l[1].l,
    r |-> <<[lo |-> parent.lo, hi |-> parent.hi,
             l |-> parent.l[1].r, r |-> parent.r]>>]

\* rotate_left, the mirror image
RotateLeft(parent) ==
   [lo |-> parent.r[1].lo, hi |-> parent.r[1].hi,
    l |-> <<[lo |-> parent.lo, hi |-> parent.hi,
             l |-> parent.l, r |-> parent.r[1].l]>>,
    r |-> parent.r[1].r]

RECURSIVE MoveMinToRoot(_)
\* move_min_to_root
MoveMinToRoot(root) ==
   IF root.l = <<>> THEN root
   ELSE RotateRight([root EXCEPT !.l = <<MoveMinToRoot(root.l[1])>>])

RECURSIVE TreeToVineOpt(_)
\* the while loop of tree_to_vine on an optional node
TreeToVineOpt(t) ==
   IF t = <<>> THEN <<>>
   ELSE LET Rest(m) == <<[m EXCEPT !.r = TreeToVineOpt(m.r)]>>
        IN Rest(MoveMinToRoot(t[1]))

\* tree_to_vine
TreeToVine(tree) == TreeToVineOpt(<<tree>>)[1]

RECURSIVE RotateLoop(_, _, _)
\* for (; bf > 1; bf -= 2) rotate(vine) of vine_to_tree
RotateLoop(vine, bf, left) ==
   IF bf > 1
   THEN RotateLoop(IF left THEN RotateLeft(vine) ELSE RotateRight(vine),
                   bf - 2, left)
   ELSE vine

RECURSIVE VineToTreeOpt(_)
\* vine_to_tree on an optional node
VineToTreeOpt(v) ==
   IF v = <<>> THEN <<>>
   ELSE LET Children(t) ==
               <<[t EXCEPT !.l = VineToTreeOpt(t.l),
                           !.r = VineToTreeOpt(t.r)]>>
        IN Children(IF BalanceFactor(v[1]) < -1
                    THEN RotateLoop(v[1], -BalanceFactor(v[1]), TRUE)
                    ELSE RotateLoop(v[1], BalanceFactor(v[1]), FALSE))

\* vine_to_tree
VineToTree(vine) == VineToTreeOpt(<<vine>>)[1]

\* An increasing vine has no left children: the vine functions below work
\* on the sequence of the ranges of its nodes, node k+1 being the rchild
\* of node k; a pointer to a node is its number and 0 is NULL.
RECURSIVE VineNodesOpt(_)
VineNodesOpt(v) ==
   IF v = <<>> THEN <<>>
   ELSE <<Range(v[1].lo, v[1].hi)>> \o VineNodesOpt(v[1].r)

\* the ranges of the nodes of a vine, following rchild from the root
VineNodes(vine) == VineNodesOpt(<<vine>>)

RECURSIVE NodesVineOpt(_)
NodesVineOpt(s) ==
   IF s = <<>> THEN <<>>
   ELSE <<[lo |-> s[1].lo, hi |-> s[1].hi, l |-> <<>>,
           r |-> NodesVineOpt(Tail(s))]>>

\* the vine whose nodes hold the given ranges
NodesVine(s) == NodesVineOpt(s)[1]

RECURSIVE InOrderOpt(_)
\* the ranges of a tree in order (hook_inorder)
InOrderOpt(t) ==
   IF t = <<>> THEN <<>>
   ELSE InOrderOpt(t[1].l) \o <<Range(t[1].lo, t[1].hi)>>
        \o InOrderOpt(t[1].r)

InOrder(tree) == IF EmptyTree(tree) THEN <<>> ELSE InOrderOpt(<<tree>>)

\* ------------------------------------------------------------------------
\* class.c: inserting into and deleting from a vine.  The functions give
\* [st, v]: st is "ok", or "segv" when the code reads through a NULL
\* pointer, and v holds the ranges of the nodes of the vine.  The uint32_t
\* sums hi + 1 and lo - 1 do not wrap: they are taken of the codepoints of
\* nodes and arguments, with lo - 1 only where lo is above a node's lo.
\* ------------------------------------------------------------------------

\* the nodes of v without the nodes i+1 .. j (ln->rchild = rn->rchild and
\* the nodes between are freed)
Unlink(v, i, j) == SubSeq(v, 1, i) \o SubSeq(v, j + 1, Len(v))

\* the nodes of v with a new node holding range after node i
LinkAfter(v, i, range) ==
   SubSeq(v, 1, i) \o <<range>> \o SubSeq(v, i + 1, Len(v))

RECURSIVE OneAwayLoop(_, _)
\* the for loop of one_away_ranges with vine at node i.  After a merge the
\* loop steps to the rchild of the merged node: when there is none, the
\* loop test reads vine->rchild through NULL.
OneAwayLoop(v, i) ==
   IF i = 0 THEN [st |-> "segv", v |-> v]
   ELSE IF i = Len(v) THEN [st |-> "ok", v |-> v]
   ELSE IF v[i].hi + 1 = v[i + 1].lo
   THEN OneAwayLoop(Unlink([v EXCEPT ![i].hi = v[i + 1].hi], i, i + 1),
                    IF i + 1 < Len(v) THEN i + 1 ELSE 0)
   ELSE OneAwayLoop(v, i + 1)

\* one_away_ranges
OneAwayRanges(v) == OneAwayLoop(v, 1)

RECURSIVE FindLn(_, _, _)
\* the first loop of find_case_set_ptrs: the node ln stops at
FindLn(v, range, i) ==
   IF i > Len(v) THEN 0
   ELSE IF range.lo >= v[i].hi THEN FindLn(v, range, i + 1)
   ELSE i

RECURSIVE FindRn(_, _, _)
\* the second loop of find_case_set_ptrs: the node rn stops at (Len(v) + 1
\* stands for the NULL after the last node)
FindRn(v, range, i) ==
   IF i > Len(v) THEN i
   ELSE IF range.hi >= v[i].lo THEN FindRn(v, range, i + 1)
   ELSE i

\* find_case_set_ptrs: the case and the pointers ln, rn, lpar, rpar
FindCaseSetPtrs(v, range) ==
   LET ln == FindLn(v, range, 1)
       lpar == IF ln = 0 THEN Len(v) ELSE ln - 1
       start == IF lpar # 0 THEN lpar ELSE 1
       stop == FindRn(v, range, start)
       rparLoop == IF stop = start THEN 0 ELSE stop - 1
       temp == IF stop - start >= 2 THEN stop - 2 ELSE 0
       rn == IF rparLoop # 0 THEN rparLoop ELSE 1
       rpar == IF rparLoop # 0 THEN temp ELSE rparLoop
   IN IF rparLoop = 0 /\ range.hi < v[stop].lo
      THEN [case |-> "LESS_THAN_MIN", ln |-> ln, rn |-> stop, lpar |-> lpar,
            rpar |-> rparLoop]
      ELSE [case |-> IF rn = lpar THEN "DISJOINT"
                     ELSE IF rn = ln THEN "OVERLAP_ONE"
                     ELSE IF rn = Len(v) /\ lpar = 0 THEN "OVERLAP_ALL"
                     ELSE "OVERLAP_MULTIPLE",
            ln |-> ln, rn |-> rn, lpar |-> lpar, rpar |-> rpar]

\* the switch of vine_insert
VineInsertCase(v, range, p) ==
   CASE p.case = "OVERLAP_ALL" ->
           <<Range(FMin(v[p.ln].lo, range.lo), FMax(v[p.rn].hi, range.hi))>>
     [] p.case = "OVERLAP_MULTIPLE" ->
           Unlink([v EXCEPT ![p.ln] = Range(FMin(v[p.ln].lo, range.lo),
                                            FMax(v[p.rn].hi, range.hi))],
                  p.ln, p.rn)
     [] p.case = "OVERLAP_ONE" ->
           [v EXCEPT ![p.ln] = Range(FMin(v[p.ln].lo, range.lo),
                                     FMax(v[p.rn].hi, range.hi))]
     [] p.case = "DISJOINT" -> LinkAfter(v, p.rn, range)
     [] p.case = "LESS_THAN_MIN" -> <<range>> \o v

\* vine_insert
VineInsert(v, range) ==
   OneAwayRanges(VineInsertCase(v, range, FindCaseSetPtrs(v, range)))

\* the vine of a class made empty: the root with lo = EmptyVal
Emptied(v) == <<Range(EmptyVal, v[1].hi)>>

\* case OVERLAP_MULTIPLE of vine_delete (case OVERLAP_ALL falls through
\* to it).  ln is never behind rn, so unlinking the nodes after ln up to
\* rn leaves the vine alone when ln = rn.
VineDeleteMultiple(v, range, p) ==
   LET back == range.hi <= v[p.rn].hi
       v1 == IF back THEN [v EXCEPT ![p.rn].lo = range.hi] ELSE v
       rn == IF back THEN p.rpar ELSE p.rn
   IN IF range.lo <= v1[p.ln].lo
      THEN IF p.lpar = 0
           THEN IF rn = 0 \/ rn = Len(v1)
                THEN [st |-> "segv", v |-> v1]
                ELSE [st |-> "ok",
                      v |-> Unlink([v1 EXCEPT ![p.ln] = v1[rn + 1]],
                                   p.ln, rn + 1)]
           ELSE [st |-> "ok", v |-> Unlink(v1, p.lpar, rn)]
      ELSE [st |-> "ok",
            v |-> Unlink([v1 EXCEPT ![p.ln].hi = range.lo], p.ln, rn)]

\* case OVERLAP_ONE of vine_delete
VineDeleteOne(v, range, p) ==
   IF range.lo <= v[p.ln].lo /\ range.hi >= v[p.ln].hi
   THEN IF p.lpar = 0
        THEN IF p.ln = Len(v)
             THEN Emptied(v)
             ELSE Unlink([v EXCEPT ![p.ln] = v[p.ln + 1]], p.ln, p.ln + 1)
        ELSE Unlink(v, p.lpar, p.lpar + 1)
   ELSE IF range.lo > v[p.ln].lo /\ range.hi < v[p.ln].hi
   THEN LinkAfter([v EXCEPT ![p.ln].hi = range.lo - 1], p.ln,
                  Range(range.hi + 1, v[p.ln].hi))
   ELSE IF range.lo <= v[p.ln].lo
   THEN [v EXCEPT ![p.ln].lo = range.hi]
   ELSE [v EXCEPT ![p.ln].hi = range.lo]

\* the switch of vine_delete
VineDeleteCase(v, range, p) ==
   CASE p.case \in {"LESS_THAN_MIN", "DISJOINT"} -> [st |-> "ok", v |-> v]
     [] p.case = "OVERLAP_ALL" ->
           IF range.lo <= v[p.ln].lo /\ range.hi >= v[p.rn].hi
           THEN [st |-> "ok", v |-> Emptied(v)]
           ELSE VineDeleteMultiple(v, range, p)
     [] p.case = "OVERLAP_MULTIPLE" -> VineDeleteMultiple(v, range, p)
     [] p.case = "OVERLAP_ONE" ->
           [st |-> "ok", v |-> VineDeleteOne(v, range, p)]

\* vine_delete
VineDelete(v, range) == VineDeleteCase(v, range, FindCaseSetPtrs(v, range))

\* ------------------------------------------------------------------------
\* class.c: the public operations.  They give [st, tree].
\* ------------------------------------------------------------------------

\* the tree class_insert_range, class_delete_range, class_union and
\* class_difference leave: vine_to_tree of the vine (class_insert_range
\* and class_delete_range call it when the root has a right child, which
\* is when it does anything)
Rebalanced(tree, r) ==
   IF r.st # "ok" THEN [st |-> r.st, tree |-> tree]
   ELSE [st |-> "ok", tree |-> VineToTree(NodesVine(r.v))]

\* class_insert_range
ClassInsertRange(tree, range) ==
   IF EmptyTree(tree)
   THEN [st |-> "ok", tree |-> [tree EXCEPT !.lo = range.lo,
                                            !.hi = range.hi]]
   ELSE Rebalanced(tree, VineInsert(VineNodes(TreeToVine(tree)), range))

\* class_insert_codepoint
ClassInsertCodepoint(tree, cp) == ClassInsertRange(tree, Range(cp, cp))

\* class_delete_range
ClassDeleteRange(tree, range) ==
   IF EmptyTree(tree)
   THEN [st |-> "ok", tree |-> tree]
   ELSE Rebalanced(tree, VineDelete(VineNodes(TreeToVine(tree)), range))

\* class_delete_codepoint
ClassDeleteCodepoint(tree, cp) == ClassDeleteRange(tree, Range(cp, cp))

RECURSIVE UnionRecurse(_, _)
\* union_recurse: vine_insert of the ranges of right in pre-order
UnionRecurse(left, right) ==
   IF right = <<>> \/ left.st # "ok" THEN left
   ELSE LET Rchild(done) == UnionRecurse(done, right[1].r)
            Lchild(done) == Rchild(UnionRecurse(done, right[1].l))
        IN Lchild(VineInsert(left.v, Range(right[1].lo, right[1].hi)))

\* class_union
ClassUnion(left, right) ==
   IF EmptyTree(right) THEN [st |-> "ok", tree |-> left]
   ELSE IF EmptyTree(left)
   THEN Rebalanced(left,
           UnionRecurse(
              UnionRecurse([st |-> "ok",
                            v |-> <<Range(right.lo, right.hi)>>], right.l),
              right.r))
   ELSE Rebalanced(left,
           UnionRecurse([st |-> "ok", v |-> VineNodes(TreeToVine(left))],
                        <<right>>))

RECURSIVE DifferenceRecurse(_, _)
\* difference_recurse: vine_delete of the ranges of right in pre-order
DifferenceRecurse(left, right) ==
   IF right = <<>> \/ left.st # "ok" THEN left
   ELSE LET Rchild(done) == DifferenceRecurse(done, right[1].r)
            Lchild(done) == Rchild(DifferenceRecurse(done, right[1].l))
        IN Lchild(VineDelete(left.v, Range(right[1].lo, right[1].hi)))

\* class_difference
ClassDifference(left, right) ==
   IF EmptyTree(right) THEN [st |-> "ok", tree |-> left]
   ELSE IF EmptyTree(left)
   THEN Rebalanced(left,
           DifferenceRecurse(
              DifferenceRecurse([st |-> "ok",
                                 v |-> <<Range(right.lo, right.hi)>>],
                                right.l),
              right.r))
   ELSE Rebalanced(left,
           DifferenceRecurse([st |-> "ok",
                              v |-> VineNodes(TreeToVine(left))],
                             <<right>>))

\* class_intersection: the body is the assertion on its arguments alone,
\* so left is returned as it was
ClassIntersection(left, right) == [st |-> "ok", tree |-> left]

RECURSIVE ClassCardinalityOpt(_)
\* class_cardinality of a child pointer: 0 for NULL
ClassCardinalityOpt(t) ==
   IF t = <<>> THEN 0
   ELSE (t[1].hi - t[1].lo + 1) + ClassCardinalityOpt(t[1].l)
                                + ClassCardinalityOpt(t[1].r)

\* class_cardinality: the sum of hi - lo + 1 over the nodes
ClassCardinality(tree) ==
   IF EmptyTree(tree) THEN 0 ELSE ClassCardinalityOpt(<<tree>>)

RECURSIVE ClassSizeOpt(_)
\* class_size of a child pointer: 0 for NULL
ClassSizeOpt(t) ==
   IF t = <<>> THEN 0
   ELSE 1 + ClassSizeOpt(t[1].l) + ClassSizeOpt(t[1].r)

\* class_size: the number of nodes
ClassSize(tree) == IF EmptyTree(tree) THEN 0 ELSE ClassSizeOpt(<<tree>>)

\* ------------------------------------------------------------------------
\* range.c: the capture store
\* ------------------------------------------------------------------------

\* a group_t with begin = end = NULL
NilCap == [b |-> 0, e |-> 0]

\* range_new: calloc'ed array of the given size
RangeNew(size) == [i \in 0 .. size - 1 |-> NilCap]

\* ------------------------------------------------------------------------
\* bts.c: the backtrack stack (top of the stack is the last element)
\* ------------------------------------------------------------------------

\* bts_push (the Assign macro sets nest to NULL)
BtsPush(stack, ind, str, mat, rec, inn, nbr) ==
   Append(stack, [index |-> ind, str |-> str, matches |-> mat,
                  recursive |-> rec, inner |-> inn, nbr |-> nbr,
                  nest |-> <<>>])

\* bts_top
BtsTop(stack) == stack[Len(stack)]

\* bts_pop
BtsPop(stack) == SubSeq(stack, 1, Len(stack) - 1)

\* bts_set_top
BtsSetTop(stack, index, matches, nest) ==
   [stack EXCEPT ![Len(stack)] =
       [@ EXCEPT !.index = index, !.matches = matches, !.nest = nest]]

\* ------------------------------------------------------------------------
\* atom.c: atoms of the matcher graph
\* ------------------------------------------------------------------------

\* atom_new: index, type Uninitialized, range [1,1], greedy
AtomNew(index) ==
   [index |-> index, type |-> "Uninitialized", lo |-> 1, hi |-> 1,
    greedy |-> TRUE, invert |-> FALSE,
    string |-> <<>>, class |-> <<>>, group |-> -1, ref |-> -1]

\* atom_set_string
AtomSetString(atom, s) == [atom EXCEPT !.type = "String", !.string = s]

\* atom_set_class
AtomSetClass(atom, cls) == [atom EXCEPT !.type = "Class", !.class = <<cls>>]

\* atom_set_core: flag 0 Group, 1 Atomic, 2 LookAhead, 4 Subroutine
AtomSetCore(atom, core, flag) ==
   [atom EXCEPT !.type = CASE flag = 0 -> "Group"
                           [] flag = 1 -> "Atomic"
                           [] flag = 2 -> "LookAhead"
                           [] flag = 4 -> "Subroutine"
                           [] OTHER -> @,
                !.group = core]

\* atom_set_anchor: flag 1 WordAnchor, 2 EdgeAnchor
AtomSetAnchor(atom, flag) ==
   [atom EXCEPT !.type = IF flag = 1 THEN "WordAnchor" ELSE "EdgeAnchor"]

\* atom_set_reference
AtomSetReference(atom, ref) ==
   [atom EXCEPT !.type = "Backreference", !.ref = ref]

\* atom_set_range
AtomSetRange(atom, a, b) ==
   [atom EXCEPT !.lo = a, !.hi = IF b = -1 THEN MAXREPS ELSE b]

\* atom_set_greedy
AtomSetGreedy(atom, val) == [atom EXCEPT !.greedy = val]

\* atom_set_invert
AtomSetInvert(atom, val) == [atom EXCEPT !.invert = val]

\* atom_has_group
AtomHasGroup(atom) == atom.type \in {"Atomic", "Group", "LookAhead"}

\* ------------------------------------------------------------------------
\* atom.c: single matches.  A match function returns the end position of
\* the match, 0 (NULL) when there is none.  ctx = [pat, input, head, d]
\* carries the compiled pattern, the input buffer, the head pointer and
\* the number of core_match calls that are active.
\* ------------------------------------------------------------------------

\* *str for a pointer into the NUL-terminated input
Deref(input, p) == IF p >= 1 /\ p <= Len(input) THEN input[p] ELSE NUL

\* the TRUe macro: invert ? NULL : str
TRUe(atom, str) == IF atom.invert THEN 0 ELSE str

\* the FALSe macro: invert ? str : NULL
FALSe(atom, str) == IF atom.invert THEN str ELSE 0

RECURSIVE MatchStringFrom(_, _, _, _)
\* the while loop of match_string: i counts the bytes of the literal compared
MatchStringFrom(input, match, i, str) ==
   IF i > Len(match) THEN str
   ELSE IF Deref(input, str) # match[i] THEN 0
   ELSE MatchStringFrom(input, match, i + 1, str + 1)

\* match_string
MatchString(ctx, atom, str) == MatchStringFrom(ctx.input, atom.string, 1, str)

RECURSIVE MatchReferenceFrom(_, _, _, _)
\* the while loop of match_reference
MatchReferenceFrom(input, begin, end, str) ==
   IF begin = end THEN str
   ELSE IF Deref(input, str) = NUL THEN 0
   ELSE IF Deref(input, begin) # Deref(input, str) THEN 0
   ELSE MatchReferenceFrom(input, begin + 1, end, str + 1)

\* match_reference without the test of begin
MatchReferenceNoNilTest(ctx, atom, str, gr) ==
   MatchReferenceFrom(ctx.input, gr[atom.ref].b, gr[atom.ref].e, str)

\* match_reference
MatchReference(ctx, atom, str, gr) ==
   IF gr[atom.ref].b = 0 THEN 0
   ELSE MatchReferenceFrom(ctx.input, gr[atom.ref].b, gr[atom.ref].e, str)

\* match_class: u8_decode of an ASCII byte gives the byte and ends one
\* byte further (the inputs of this model are ASCII)
MatchClass(ctx, atom, str) ==
   IF ClassSearch(atom.class[1], Deref(ctx.input, str))
   THEN TRUe(atom, str + 1)
   ELSE FALSe(atom, str + 1)

\* class_search(word_characters, c): start_regex_engine parses the class
\* of \w, [a-zA-Z0-9_]
IsWordCharacter(c) ==
   c \in (97 .. 122) \cup (65 .. 90) \cup (48 .. 57) \cup {95}

\* a word anchor that takes the terminator for a word character
MatchWordAnchorEndIsWord(ctx, atom, str) ==
   LET curr_is_word == \/ IsWordCharacter(Deref(ctx.input, str))
                       \/ Deref(ctx.input, str) = NUL
       prev_is_word == IsWordCharacter(Deref(ctx.input, str - 1))
   IN IF str = ctx.head
      THEN (IF curr_is_word THEN TRUe(atom, str) ELSE FALSe(atom, str))
      ELSE IF curr_is_word # prev_is_word
      THEN TRUe(atom, str)
      ELSE FALSe(atom, str)

\* match_wordanchor.  prev_is_word is read from the byte before str also
\* when str is head and that byte lies before the input; the two branches
\* taken when str is head return without using it.
MatchWordAnchor(ctx, atom, str) ==
   LET curr_is_word == IsWordCharacter(Deref(ctx.input, str))
       prev_is_word == IsWordCharacter(Deref(ctx.input, str - 1))
       curr_is_head == str = ctx.head
       curr_is_end == Deref(ctx.input, str) = NUL
   IN IF curr_is_head /\ curr_is_end THEN FALSe(atom, str)
      ELSE IF curr_is_head
      THEN (IF curr_is_word THEN TRUe(atom, str) ELSE FALSe(atom, str))
      ELSE IF curr_is_end
      THEN (IF prev_is_word THEN TRUe(atom, str) ELSE FALSe(atom, str))
      ELSE IF curr_is_word
      THEN (IF prev_is_word THEN FALSe(atom, str) ELSE TRUe(atom, str))
      ELSE (IF prev_is_word THEN TRUe(atom, str) ELSE FALSe(atom, str))

\* match_edgeanchor
MatchEdgeAnchor(ctx, atom, str) ==
   IF atom.invert
   THEN (IF str = ctx.head THEN str ELSE 0)
   ELSE (IF Deref(ctx.input, str) = NUL THEN str ELSE 0)

\* the frame pushed at the start of a branch: bts_push(stack, 0, str, 0, false, NULL, 0)
PushStart(stack, str) == BtsPush(stack, 0, str, 0, FALSE, <<>>, 0)

RECURSIVE CoreHighest(_, _)
\* _core_groups: the highest group index in a core and the cores nested
\* in its Group, Atomic and LookAhead atoms
CoreHighest(pat, cid) ==
   LET core == pat.cores[cid]
       nested == UNION {{core.branches[i][k].group :
                            k \in {j \in 1 .. Len(core.branches[i]) :
                                      AtomHasGroup(core.branches[i][j])}} :
                        i \in 1 .. Len(core.branches)}
       all == {core.index} \cup {CoreHighest(pat, n) : n \in nested}
   IN CHOOSE h \in all : \A x \in all : x <= h

\* core_groups
CoreGroups(pat, cid) == CoreHighest(pat, cid) + 1

RECURSIVE CoreMatch(_, _, _, _, _, _, _)
RECURSIVE BranchMatch(_, _, _, _)
RECURSIVE CoreLoop(_, _, _, _, _, _)
RECURSIVE GreedyLoop(_, _, _)
RECURSIVE LazyLoop(_, _, _)

\* match_lookahead: core_match without an outer stack; the captures the
\* nested core wrote stay in gr
MatchLookahead(ctx, atom, str, gr) ==
   LET Return(r) ==
          [st |-> r.st, gr |-> r.gr,
           str |-> IF r.found THEN TRUe(atom, str) ELSE FALSe(atom, str)]
   IN Return(CoreMatch(ctx, atom.group, str, <<>>, <<gr>>, <<>>, 0))

\* match_atomic that hands the enclosing stack to core_match as outer
MatchAtomicWithOuter(ctx, atom, L) ==
   LET Return(r) ==
          IF r.st # "ok" \/ ~r.found
          THEN [st |-> r.st, gr |-> r.gr, stack |-> L.stack, str |-> 0]
          ELSE [st |-> "ok", gr |-> r.gr, str |-> r.end,
                stack |-> IF BtsTop(r.outer).inner = <<>>
                          THEN BtsPop(r.outer)
                          ELSE BtsSetTop(r.outer, atom.index, L.matches,
                                         <<>>)]
   IN Return(CoreMatch(ctx, atom.group, L.str, <<L.stack>>, <<L.gr>>,
                       L.inner, L.nbr))

\* match_atomic: a group match whose backtracking information is dropped
MatchAtomic(ctx, atom, L) ==
   LET Return(r) ==
          [st |-> r.st, gr |-> r.gr, stack |-> L.stack,
           str |-> IF r.found THEN r.end ELSE 0]
   IN Return(CoreMatch(ctx, atom.group, L.str, <<>>, <<L.gr>>, <<>>, 0))

\* match_group: core_match on the nested core with the enclosing stack
\* as outer; the re-entry frame it pushed is popped when it has no inner
\* stack and completed with the atom index and match counter otherwise
MatchGroup(ctx, atom, L) ==
   LET Return(r) ==
          IF r.st # "ok" \/ ~r.found
          THEN [st |-> r.st, gr |-> r.gr, stack |-> L.stack, str |-> 0]
          ELSE [st |-> "ok", gr |-> r.gr, str |-> r.end,
                stack |-> IF BtsTop(r.outer).inner = <<>>
                          THEN BtsPop(r.outer)
                          ELSE BtsSetTop(r.outer, atom.index, L.matches,
                                         <<>>)]
   IN Return(CoreMatch(ctx, atom.group, L.str, <<L.stack>>, <<L.gr>>,
                       L.inner, L.nbr))

\* match_subroutine that runs the called core on the caller's array
MatchSubroutineNoCopy(ctx, atom, L) ==
   LET Return(r) ==
          IF r.st # "ok" \/ ~r.found
          THEN [st |-> r.st, gr |-> r.gr, stack |-> L.stack, str |-> 0]
          ELSE [st |-> "ok", gr |-> r.gr, str |-> r.end,
                stack |-> IF BtsTop(r.outer).inner = <<>>
                          THEN BtsPop(r.outer)
                          ELSE BtsSetTop(r.outer, atom.index, L.matches,
                                         <<>>)]
   IN Return(CoreMatch(ctx, atom.group, L.str, <<L.stack>>, <<L.gr>>,
                       L.inner, L.nbr))

\* match_subroutine: core_match on a copy of the captures (the nest
\* snapshot kept on the re-entry frame, when there is one); gr is not
\* written.  greedy_match and lazy_match keep passing the nest pointer of
\* the frame they popped: once the first call has freed it or stored it
\* on a new frame, a further call uses a pointer that is no longer theirs.
MatchSubroutine(ctx, atom, L) ==
   IF L.nest # <<>> /\ L.nestUsed
   THEN [st |-> "ub", gr |-> L.gr, stack |-> L.stack, str |-> 0]
   ELSE
   LET nest == IF L.nest = <<>> THEN L.gr ELSE L.nest[1]
       Return(r) ==
          IF r.st # "ok" \/ ~r.found
          THEN [st |-> r.st, gr |-> L.gr, stack |-> L.stack, str |-> 0]
          ELSE [st |-> "ok", gr |-> L.gr, str |-> r.end,
                stack |-> IF BtsTop(r.outer).inner = <<>>
                          THEN BtsPop(r.outer)
                          ELSE BtsSetTop(r.outer, atom.index, L.matches,
                                         <<r.gr>>)]
   IN Return(CoreMatch(ctx, atom.group, L.str, <<L.stack>>, <<nest>>,
                       L.inner, L.nbr))

\* the DoMatch macro
DoMatch(ctx, atom, L) ==
   CASE atom.type = "Class" ->
           [st |-> "ok", gr |-> L.gr, stack |-> L.stack,
            str |-> MatchClass(ctx, atom, L.str)]
     [] atom.type = "Backreference" ->
           [st |-> "ok", gr |-> L.gr, stack |-> L.stack,
            str |-> MatchReference(ctx, atom, L.str, L.gr)]
     [] atom.type = "Group" -> MatchGroup(ctx, atom, L)
     [] atom.type = "Subroutine" -> MatchSubroutine(ctx, atom, L)
     [] atom.type = "Atomic" -> MatchAtomic(ctx, atom, L)

\* the locals of greedy_match and lazy_match after another match:
\* ++matches, and the re-entry data is dropped after its first use
LoopNext(L, r) ==
   [str |-> r.str, matches |-> L.matches + 1, recursive |-> FALSE,
    inner |-> IF L.recursive THEN <<>> ELSE L.inner,
    nbr |-> IF L.recursive THEN 0 ELSE L.nbr,
    nest |-> L.nest, nestUsed |-> TRUE,
    stack |-> r.stack, gr |-> r.gr]

\* a for loop of greedy_match that pushes no frame at range.lo matches
GreedyLoopSkipsLo(ctx, atom, L) ==
   LET s1 == IF L.matches > atom.lo /\ L.matches <= atom.hi
             THEN BtsPush(L.stack, atom.index + 1, L.str, 0, FALSE, <<>>, 0)
             ELSE L.stack
   IN IF L.matches >= atom.hi \/ Deref(ctx.input, L.str) = NUL
      THEN [st |-> "ok", stack |-> s1, gr |-> L.gr]
      ELSE LET Step(r) ==
                  IF r.st # "ok" \/ r.str = 0
                  THEN [st |-> r.st, stack |-> r.stack, gr |-> r.gr]
                  ELSE GreedyLoop(ctx, atom, LoopNext(L, r))
           IN Step(DoMatch(ctx, atom, [L EXCEPT !.stack = s1]))

\* the for loop of greedy_match
GreedyLoop(ctx, atom, L) ==
   LET s1 == IF L.matches >= atom.lo /\ L.matches <= atom.hi
             THEN BtsPush(L.stack, atom.index + 1, L.str, 0, FALSE, <<>>, 0)
             ELSE L.stack
   IN IF L.matches >= atom.hi \/ Deref(ctx.input, L.str) = NUL
      THEN [st |-> "ok", stack |-> s1, gr |-> L.gr]
      ELSE LET Step(r) ==
                  IF r.st # "ok" \/ r.str = 0
                  THEN [st |-> r.st, stack |-> r.stack, gr |-> r.gr]
                  ELSE GreedyLoop(ctx, atom, LoopNext(L, r))
           IN Step(DoMatch(ctx, atom, [L EXCEPT !.stack = s1]))

\* the for loop of lazy_match
LazyLoop(ctx, atom, L) ==
   IF L.matches > atom.hi \/ Deref(ctx.input, L.str) = NUL
   THEN [st |-> "ok", stack |-> L.stack, gr |-> L.gr]
   ELSE LET Step(r) ==
               LET s1 == IF r.str # 0 /\ L.matches >= atom.lo
                            /\ L.matches < atom.hi
                         THEN BtsPush(r.stack, atom.index, r.str,
                                      L.matches + 1, FALSE, <<>>, 0)
                         ELSE r.stack
               IN IF r.st # "ok"
                  THEN [st |-> r.st, stack |-> r.stack, gr |-> r.gr]
                  ELSE IF L.matches >= atom.lo /\ L.matches <= atom.hi
                  THEN [st |-> "ok", gr |-> r.gr,
                        stack |-> BtsPush(s1, atom.index + 1, L.str, 0,
                                          FALSE, <<>>, 0)]
                  ELSE IF r.str = 0
                  THEN [st |-> "ok", stack |-> s1, gr |-> r.gr]
                  ELSE LazyLoop(ctx, atom,
                                LoopNext(L, [r EXCEPT !.stack = s1]))
        IN Step(IF L.matches # atom.hi
                THEN DoMatch(ctx, atom, L)
                ELSE [st |-> "ok", gr |-> L.gr, stack |-> L.stack,
                      str |-> L.str])

\* the locals greedy_match and lazy_match read from the top frame, which
\* they pop
LoopStart(stack, gr) ==
   LET top == BtsTop(stack)
   IN [str |-> top.str, matches |-> top.matches, recursive |-> top.recursive,
       inner |-> top.inner, nbr |-> top.nbr, nest |-> top.nest,
       nestUsed |-> FALSE, stack |-> BtsPop(stack), gr |-> gr]

\* greedy_match
GreedyMatch(ctx, atom, stack, gr) == GreedyLoop(ctx, atom, LoopStart(stack, gr))

\* lazy_match
LazyMatch(ctx, atom, stack, gr) == LazyLoop(ctx, atom, LoopStart(stack, gr))

\* the NoRangeCase macro: pop, run the operation, push the successor frame
NoRangeCase(atom, stack, str) ==
   IF str # 0
   THEN BtsPush(BtsPop(stack), atom.index + 1, str, 0, FALSE, <<>>, 0)
   ELSE BtsPop(stack)

\* atom_match; an atom that was never given a type fails its assertion
AtomMatch(ctx, atom, stack, gr) ==
   LET str == BtsTop(stack).str
   IN CASE atom.type = "Uninitialized" ->
              [st |-> "assert", gr |-> gr, stack |-> stack]
        [] atom.type = "String" ->
              [st |-> "ok", gr |-> gr,
               stack |-> NoRangeCase(atom, stack, MatchString(ctx, atom, str))]
        [] atom.type = "LookAhead" ->
              LET Return(r) ==
                     [st |-> r.st, gr |-> r.gr,
                      stack |-> IF r.st = "ok"
                                THEN NoRangeCase(atom, stack, r.str)
                                ELSE stack]
              IN Return(MatchLookahead(ctx, atom, str, gr))
        [] atom.type = "EdgeAnchor" ->
              [st |-> "ok", gr |-> gr,
               stack |-> NoRangeCase(atom, stack,
                                     MatchEdgeAnchor(ctx, atom, str))]
        [] atom.type = "WordAnchor" ->
              [st |-> "ok", gr |-> gr,
               stack |-> NoRangeCase(atom, stack,
                                     MatchWordAnchor(ctx, atom, str))]
        [] OTHER ->
              IF atom.greedy
              THEN GreedyMatch(ctx, atom, stack, gr)
              ELSE LazyMatch(ctx, atom, stack, gr)

\* branch_match: run atoms until the stack is empty (end = 0) or the top
\* frame has run past the last atom (end = its position)
BranchMatch(ctx, branch, stack, gr) ==
   IF stack = <<>>
   THEN [st |-> "ok", end |-> 0, stack |-> stack, gr |-> gr]
   ELSE IF BtsTop(stack).index = Len(branch)
   THEN [st |-> "ok", end |-> BtsTop(stack).str, stack |-> BtsPop(stack),
         gr |-> gr]
   ELSE LET Step(r) ==
               IF r.st # "ok"
               THEN [st |-> r.st, end |-> 0, stack |-> r.stack, gr |-> r.gr]
               ELSE BranchMatch(ctx, branch, r.stack, r.gr)
        IN Step(AtomMatch(ctx, branch[BtsTop(stack).index + 1], stack, gr))

\* the for (;;) of core_match: match branch nbr, go on with the next
\* branch when its stack is exhausted
CoreLoop(ctx, core, nbr, stack, gr, str) ==
   LET Step(r) ==
          IF r.st # "ok" \/ r.end # 0
          THEN [st |-> r.st, end |-> r.end, stack |-> r.stack, gr |-> r.gr,
                nbr |-> nbr]
          ELSE IF nbr + 1 < Len(core.branches)
          THEN CoreLoop(ctx, core, nbr + 1, PushStart(r.stack, str), r.gr,
                        str)
          ELSE [st |-> "ok", end |-> 0, stack |-> r.stack, gr |-> r.gr,
                nbr |-> nbr]
   IN Step(BranchMatch(ctx, core.branches[nbr + 1], stack, gr))

\* an entry code that leaves the slot of the core as the caller had it
CoreEntryGroupsKeepSlot(pat, cid, groups) ==
   IF pat.cores[cid].index = 0 /\ groups = <<>>
   THEN RangeNew(CoreGroups(pat, cid))
   ELSE groups[1]

\* the capture array core_match works on after its entry code: a fresh
\* one for the top-level call, and the slot of a capturing core nulled
CoreEntryGroups(pat, cid, groups) ==
   LET core == pat.cores[cid]
       g0 == IF core.index = 0 /\ groups = <<>>
             THEN RangeNew(CoreGroups(pat, cid))
             ELSE groups[1]
   IN IF core.index >= 0 THEN [g0 EXCEPT ![core.index] = NilCap] ELSE g0

\* the FoundMatch code of core_match that records the capture
RecordCapture(core, gr, str, end) ==
   IF core.index >= 0
   THEN [gr EXCEPT ![core.index] = [b |-> str, e |-> end]]
   ELSE gr

\* a FoundMatch code that keeps the branch number when the next branch is
\* the alternative left
SaveReentrySameBranch(core, outer, stack, nbr, str) ==
   IF stack # <<>>
   THEN BtsPush(outer, 0, str, 0, TRUE, <<stack>>, nbr)
   ELSE IF nbr + 1 < Len(core.branches)
   THEN BtsPush(outer, 0, str, 0, TRUE, <<PushStart(stack, str)>>, nbr)
   ELSE BtsPush(outer, 0, str, 0, TRUE, <<>>, 0)

\* the FoundMatch code of core_match that saves the nested backtrack
\* positions on the outer stack
SaveReentry(core, outer, stack, nbr, str) ==
   IF stack # <<>>
   THEN BtsPush(outer, 0, str, 0, TRUE, <<stack>>, nbr)
   ELSE IF nbr + 1 < Len(core.branches)
   THEN BtsPush(outer, 0, str, 0, TRUE, <<PushStart(stack, str)>>, nbr + 1)
   ELSE BtsPush(outer, 0, str, 0, TRUE, <<>>, 0)

\* core_match(obj, str, outer, groups, stack, nbr, back, head); a call
\* deeper than the native stack holds ends the process ("overflow")
CoreMatch(ctx, cid, str, outer, groups, stack, nbr) ==
   IF ctx.d >= MaxDepth
   THEN [st |-> "overflow", found |-> FALSE, end |-> 0, outer |-> <<>>,
         gr |-> IF groups = <<>> THEN <<>> ELSE groups[1]]
   ELSE
   LET core == ctx.pat.cores[cid]
       g1 == CoreEntryGroups(ctx.pat, cid, groups)
       s0 == IF stack = <<>> THEN PushStart(<<>>, str) ELSE stack[1]
       Return(r) ==
          IF r.st # "ok" \/ r.end = 0
          THEN [st |-> r.st, found |-> FALSE, end |-> 0, gr |-> r.gr,
                outer |-> IF outer = <<>> THEN <<>> ELSE outer[1]]
          ELSE [st |-> "ok", found |-> TRUE, end |-> r.end,
                gr |-> RecordCapture(core, r.gr, str, r.end),
                outer |-> IF outer = <<>> THEN <<>>
                          ELSE SaveReentry(core, outer[1], r.stack, r.nbr,
                                           str)]
   IN Return(CoreLoop([ctx EXCEPT !.d = @ + 1], core, nbr, s0, g1, str))

\* ------------------------------------------------------------------------
\* factory.c: the matcher graphs build_core makes of the token lists of
\* some regular expressions.  A pattern is its table of cores (entry 1 is
\* the root); a core is its group index and its branches; an atom names
\* the core nested in it by the number the core has in the table.
\* ------------------------------------------------------------------------

\* _build_core, case STRING
StringAtom(i, s) == AtomSetString(AtomNew(i), s)

\* _build_core, case CLASS of a single literal (convert_literal)
LiteralAtom(i, cp) ==
   AtomSetInvert(AtomSetClass(AtomNew(i), ClassConstruct(cp, cp)), FALSE)

\* _build_core, cases GROUP (flag 0), ATOMIC (1), LOOKAHEAD (2), and
\* build_core's resolution of a SUBROUTINE atom (4)
CoreAtom(i, core, flag) == AtomSetCore(AtomNew(i), core, flag)

\* _build_core, case REFERENCE
ReferenceAtom(i, ref) == AtomSetReference(AtomNew(i), ref)

\* core_new with the branches core_add_branch / branch_add_atom filled
Core(index, branches) == [index |-> index, branches |-> branches]

\* the compiled patterns, by their source
Patterns ==
   [ \* a(b|c)*d
     p_star |-> [cores |-> <<
        Core(0, << <<StringAtom(0, <<Ch.a>>),
                     AtomSetRange(CoreAtom(1, 2, 0), 0, -1),
                     StringAtom(2, <<Ch.d>>)>> >>),
        Core(1, << <<StringAtom(0, <<Ch.b>>)>>,
                   <<StringAtom(0, <<Ch.c>>)>> >>) >>],
     \* (ab)c|a
     p_alt |-> [cores |-> <<
        Core(0, << <<CoreAtom(0, 2, 0), StringAtom(1, <<Ch.c>>)>>,
                   <<StringAtom(0, <<Ch.a>>)>> >>),
        Core(1, << <<StringAtom(0, <<Ch.a, Ch.b>>)>> >>) >>],
     \* (?=(ab))a
     p_look |-> [cores |-> <<
        Core(0, << <<CoreAtom(0, 2, 2), StringAtom(1, <<Ch.a>>)>> >>),
        Core(-1, << <<CoreAtom(0, 3, 0)>> >>),
        Core(1, << <<StringAtom(0, <<Ch.a, Ch.b>>)>> >>) >>],
     \* (a|ab)(?1)c
     p_sub |-> [cores |-> <<
        Core(0, << <<CoreAtom(0, 2, 0), CoreAtom(1, 2, 4),
                     StringAtom(2, <<Ch.c>>)>> >>),
        Core(1, << <<StringAtom(0, <<Ch.a>>)>>,
                   <<StringAtom(0, <<Ch.a, Ch.b>>)>> >>) >>],
     \* (a|ab)(?1)*c
     p_subq |-> [cores |-> <<
        Core(0, << <<CoreAtom(0, 2, 0),
                     AtomSetRange(CoreAtom(1, 2, 4), 0, -1),
                     StringAtom(2, <<Ch.c>>)>> >>),
        Core(1, << <<StringAtom(0, <<Ch.a>>)>>,
                   <<StringAtom(0, <<Ch.a, Ch.b>>)>> >>) >>],
     \* (?>(a+)+)b
     p_atomic |-> [cores |-> <<
        Core(0, << <<CoreAtom(0, 2, 1), StringAtom(1, <<Ch.b>>)>> >>),
        Core(-1, << <<AtomSetRange(CoreAtom(0, 3, 0), 1, -1)>> >>),
        Core(1, << <<AtomSetRange(LiteralAtom(0, Ch.a), 1, -1)>> >>) >>],
     \* (?>a|ab)c
     p_atomalt |-> [cores |-> <<
        Core(0, << <<CoreAtom(0, 2, 1), StringAtom(1, <<Ch.c>>)>> >>),
        Core(-1, << <<StringAtom(0, <<Ch.a>>)>>,
                    <<StringAtom(0, <<Ch.a, Ch.b>>)>> >>) >>],
     \* (?R)?a
     p_rec |-> [cores |-> <<
        Core(0, << <<AtomSetRange(CoreAtom(0, 1, 4), 0, 1),
                     StringAtom(1, <<Ch.a>>)>> >>) >>],
     \* a\g<0>
     p_ref0 |-> [cores |-> <<
        Core(0, << <<StringAtom(0, <<Ch.a>>), ReferenceAtom(1, 0)>> >>) >>],
     \* (a)|b\1
     p_unset |-> [cores |-> <<
        Core(0, << <<CoreAtom(0, 2, 0)>>,
                   <<StringAtom(0, <<Ch.b>>), ReferenceAtom(1, 1)>> >>),
        Core(1, << <<StringAtom(0, <<Ch.a>>)>> >>) >>],
     \* (a|b)\1
     p_ref |-> [cores |-> <<
        Core(0, << <<CoreAtom(0, 2, 0), ReferenceAtom(1, 1)>> >>),
        Core(1, << <<StringAtom(0, <<Ch.a>>)>>,
                   <<StringAtom(0, <<Ch.b>>)>> >>) >>],
     \* a*
     p_aq |-> [cores |-> <<
        Core(0, << <<AtomSetRange(LiteralAtom(0, Ch.a), 0, -1)>> >>) >>],
     \* (a|b)*\1
     p_starref |-> [cores |-> <<
        Core(0, << <<AtomSetRange(CoreAtom(0, 2, 0), 0, -1),
                     ReferenceAtom(1, 1)>> >>),
        Core(1, << <<StringAtom(0, <<Ch.a>>)>>,
                   <<StringAtom(0, <<Ch.b>>)>> >>) >>],
     \* a{1,2}b
     p_rng |-> [cores |-> <<
        Core(0, << <<AtomSetRange(LiteralAtom(0, Ch.a), 1, 2),
                     StringAtom(1, <<Ch.b>>)>> >>) >>],
     \* ba*?
     p_lazy |-> [cores |-> <<
        Core(0, << <<StringAtom(0, <<Ch.b>>),
                     AtomSetGreedy(AtomSetRange(LiteralAtom(1, Ch.a), 0, -1),
                                   FALSE)>> >>) >>],
     \* a{1,2}?b
     p_lazyrng |-> [cores |-> <<
        Core(0, << <<AtomSetGreedy(AtomSetRange(LiteralAtom(0, Ch.a), 1, 2),
                                   FALSE),
                     StringAtom(1, <<Ch.b>>)>> >>) >>],
     \* (a*)b
     p_grpq |-> [cores |-> <<
        Core(0, << <<CoreAtom(0, 2, 0), StringAtom(1, <<Ch.b>>)>> >>),
        Core(1, << <<AtomSetRange(LiteralAtom(0, Ch.a), 0, -1)>> >>) >>],
     \* a[^b], which weedeat makes a(?:[^b\0]|$)
     p_denul |-> [cores |-> <<
        Core(0, << <<StringAtom(0, <<Ch.a>>), CoreAtom(1, 2, 0)>> >>),
        Core(-1, << <<AtomSetInvert(
                         AtomSetClass(AtomNew(0),
                            [lo |-> NUL, hi |-> NUL, l |-> <<>>,
                             r |-> <<ClassConstruct(Ch.b, Ch.b)>>]),
                         TRUE)>>,
                    <<AtomSetAnchor(AtomNew(0), 2)>> >>) >>],
     \* \b
     p_wordb |-> [cores |-> <<
        Core(0, << <<AtomSetAnchor(AtomNew(0), 1)>> >>) >>],
     \* \B
     p_nwordb |-> [cores |-> <<
        Core(0, << <<AtomSetInvert(AtomSetAnchor(AtomNew(0), 1), TRUE)>> >>)
        >>],
     \* a\b
     p_awordb |-> [cores |-> <<
        Core(0, << <<StringAtom(0, <<Ch.a>>),
                     AtomSetAnchor(AtomNew(1), 1)>> >>) >>],
     \* a\B
     p_anwordb |-> [cores |-> <<
        Core(0, << <<StringAtom(0, <<Ch.a>>),
                     AtomSetInvert(AtomSetAnchor(AtomNew(1), 1), TRUE)>> >>)
        >>]
   ]

\* the root core of a pattern
Root(pat) == pat.cores[1]

\* ------------------------------------------------------------------------
\* u8_translate.c: UTF-8 code sequences to and from codepoints.  A byte is
\* the number 0 .. 255 of its bits; a char array is the sequence of its
\* bytes before the NUL terminator, and a char* is an index into it
\* (0 for NULL).
\* ------------------------------------------------------------------------

RECURSIVE BitAnd(_, _)
\* the C operator & on non-negative operands
BitAnd(a, b) ==
   IF a = 0 \/ b = 0 THEN 0
   ELSE (a % 2) * (b % 2) + 2 * BitAnd(a \div 2, b \div 2)

RECURSIVE BitOr(_, _)
\* the C operator | on non-negative operands
BitOr(a, b) ==
   IF a = 0 THEN b
   ELSE IF b = 0 THEN a
   ELSE FMax(a % 2, b % 2) + 2 * BitOr(a \div 2, b \div 2)

\* the sentinel codepoint of a malformed sequence.  The source has
\* 0xFFFFFFFF in a uint32_t; the model has -1, the 32-bit integer of the
\* same bits.
ErrorPoint == -1

\* the byte a char* points at; the byte after the last one is the terminator
ByteAt(buf, p) == IF p <= Len(buf) THEN buf[p] ELSE NUL

\* the IsCont macro: a byte of the form 10xxxxxx
IsCont(byte) == BitAnd(byte, 192) = 128

\* the ByteLen macro:
\* CP < 0x0080 ? 1 : CP < 0x0F00 ? 2 : CP < 0xFFFF ? 3 : 4
ByteLen(cp) ==
   IF cp < 128 THEN 1 ELSE IF cp < 3840 THEN 2 ELSE IF cp < 65535 THEN 3
   ELSE 4

\* u8decode2bytes: masks 0x1F, 0x3F
u8decode2bytes(buf, u) ==
   BitOr(BitAnd(ByteAt(buf, u), 31) * 2 ^ 6, BitAnd(ByteAt(buf, u + 1), 63))

\* u8decode3bytes: masks 0x0F, 0x3F, 0x3F
u8decode3bytes(buf, u) ==
   BitOr(BitOr(BitAnd(ByteAt(buf, u), 15) * 2 ^ 12,
               BitAnd(ByteAt(buf, u + 1), 63) * 2 ^ 6),
         BitAnd(ByteAt(buf, u + 2), 63))

\* u8decode4bytes: masks 0x08, 0x3F, 0x3F, 0x3F
u8decode4bytes(buf, u) ==
   BitOr(BitOr(BitOr(BitAnd(ByteAt(buf, u), 8) * 2 ^ 18,
                     BitAnd(ByteAt(buf, u + 1), 63) * 2 ^ 12),
               BitAnd(ByteAt(buf, u + 2), 63) * 2 ^ 6),
         BitAnd(ByteAt(buf, u + 3), 63))

\* _decode(begin, &end): the codepoint returned and the end pointer set.
\* The switch is on *begin & 0xF0; the tests of the continuation bytes
\* stop at the first byte that is not one, so no byte after the terminator
\* is read.
Decode(buf, begin) ==
   LET lead == BitAnd(ByteAt(buf, begin), 240)
       Cont(k) == \A i \in 1 .. k : IsCont(ByteAt(buf, begin + i))
   IN IF lead < 128
      THEN [cp |-> ByteAt(buf, begin), end |-> begin + 1]
      ELSE IF lead < 192
      THEN [cp |-> ErrorPoint, end |-> begin + 1]
      ELSE IF lead < 224
      THEN [cp |-> IF Cont(1) THEN u8decode2bytes(buf, begin)
                   ELSE ErrorPoint,
            end |-> begin + 2]
      ELSE IF lead = 224
      THEN [cp |-> IF Cont(2) THEN u8decode3bytes(buf, begin)
                   ELSE ErrorPoint,
            end |-> begin + 3]
      ELSE [cp |-> IF Cont(3) THEN u8decode4bytes(buf, begin)
                   ELSE ErrorPoint,
            end |-> begin + 4]

\* u8encode2bytes: 0xC0 | (0x1F & (cp >> 6)), 0x80 | (0x3F & cp); a value
\* stored into a char keeps its low eight bits
u8encode2bytes(cp) ==
   <<BitOr(192, BitAnd(31, cp \div 2 ^ 6)) % 256,
     BitOr(128, BitAnd(63, cp)) % 256>>

\* u8encode3bytes: 0xE0 | (0xEF & (cp >> 12)), ...
u8encode3bytes(cp) ==
   <<BitOr(224, BitAnd(239, cp \div 2 ^ 12)) % 256,
     BitOr(128, BitAnd(63, cp \div 2 ^ 6)) % 256,
     BitOr(128, BitAnd(63, cp)) % 256>>

\* u8encode4bytes: 0xF0 | (0xF7 & (cp >> 18)), ...
u8encode4bytes(cp) ==
   <<BitOr(240, BitAnd(247, cp \div 2 ^ 18)) % 256,
     BitOr(128, BitAnd(63, cp \div 2 ^ 12)) % 256,
     BitOr(128, BitAnd(63, cp \div 2 ^ 6)) % 256,
     BitOr(128, BitAnd(63, cp)) % 256>>

\* _encode(codepoint, write): the bytes written at write; the pointer
\* returned is write + ByteLen(codepoint)
Encode(cp) ==
   CASE ByteLen(cp) = 1 -> <<cp % 256>>
     [] ByteLen(cp) = 2 -> u8encode2bytes(cp)
     [] ByteLen(cp) = 3 -> u8encode3bytes(cp)
     [] ByteLen(cp) = 4 -> u8encode4bytes(cp)

\* u8_construct
U8Construct(cp, begin, end) ==
   [codepoint |-> cp, begin |-> begin, end |-> end]

\* u8_new: an unbound u8cdpnt_t
U8New(cp) == U8Construct(cp, 0, 0)

\* u8_decode(string)
U8Decode(buf, string) ==
   U8Construct(Decode(buf, string).cp, string, Decode(buf, string).end)

\* u8_encode(code, write) of an unbound code into a zeroed array, write
\* being its first byte: the array and the code afterwards
U8Encode(code) ==
   [buf |-> Encode(code.codepoint),
    code |-> U8Construct(code.codepoint, 1,
                         1 + ByteLen(code.codepoint))]

\* ------------------------------------------------------------------------
\* util.c, obhash.c: the string hash table.  A table is its size, its load
\* and its chains, chain i + 1 being the nodes <<key, obj>> of bucket i
\* from the first one on.
\* ------------------------------------------------------------------------

\* the TABLESIZE macro
TABLESIZE == 7

\* strhash: hashcode = hashcode * 31 + *string in a uint32_t, held as its
\* high and low 16 bits
StrHash(key) ==
   LET RECURSIVE From(_, _)
       From(i, h) ==
          IF i > Len(key) THEN h
          ELSE From(i + 1,
                    [hi |-> (h.hi * 31 + (h.lo * 31 + key[i]) \div 65536)
                               % 65536,
                     lo |-> (h.lo * 31 + key[i]) % 65536])
   IN From(1, [hi |-> 0, lo |-> 0])

\* strhash(key) % size, the number of the chain of the key
ChainOf(key, size) ==
   (((StrHash(key).hi % size) * (65536 % size) + StrHash(key).lo) % size)
      + 1

\* obhash_new
ObhashNew == [size |-> TABLESIZE, load |-> 0,
              chains |-> [i \in 1 .. TABLESIZE |-> <<>>]]

\* add_to_chains: [chains, new], new the value returned
AddToChains(chains, size, key, obj) ==
   LET i == ChainOf(key, size)
       found == {n \in 1 .. Len(chains[i]) : chains[i][n][1] = key}
   IN IF found # {}
      THEN [chains |-> [chains EXCEPT ![i][CHOOSE n \in found : TRUE] =
                                         <<key, obj>>],
            new |-> FALSE]
      ELSE [chains |-> [chains EXCEPT ![i] = Append(@, <<key, obj>>)],
            new |-> TRUE]

\* obhash_find: <<obj>>, or <<>> for NULL
ObhashFind(table, key) ==
   LET chain == table.chains[ChainOf(key, table.size)]
       found == {n \in 1 .. Len(chain) : chain[n][1] = key}
   IN IF found = {} THEN <<>>
      ELSE <<chain[CHOOSE n \in found : \A m \in found : n <= m][2]>>

\* obhash_add, with expand_table when the load is past half the size
ObhashAdd(table, key, obj) ==
   LET newsize == table.size * 2 + 1
       RECURSIVE Moved(_, _, _)
       \* expand_table: the new chains with the nodes from node n of
       \* chain i on added
       Moved(i, n, chains) ==
          IF i > table.size THEN chains
          ELSE IF n > Len(table.chains[i]) THEN Moved(i + 1, 1, chains)
          ELSE Moved(i, n + 1,
                     AddToChains(chains, newsize, table.chains[i][n][1],
                                 table.chains[i][n][2]).chains)
       t1 == IF table.load * 2 > table.size
             THEN [size |-> newsize, load |-> table.load,
                   chains |-> Moved(1, 1, [i \in 1 .. newsize |-> <<>>])]
             ELSE table
       Added(r) == [size |-> t1.size, chains |-> r.chains,
                    load |-> IF r.new THEN t1.load + 1 ELSE t1.load]
   IN Added(AddToChains(t1.chains, t1.size, key, obj))

\* an obhash_clear that frees the chains and leaves the load as it was
ObhashClearKeepLoad(table) ==
   [size |-> table.size, load |-> table.load,
    chains |-> [i \in 1 .. table.size |-> <<>>]]

\* obhash_clear
ObhashClear(table) ==
   [size |-> table.size, load |-> 0,
    chains |-> [i \in 1 .. table.size |-> <<>>]]

\* the objects in the chains of a table
ObhashObjects(table) ==
   UNION {{table.chains[i][n][2] : n \in 1 .. Len(table.chains[i])} :
             i \in 1 .. table.size}

\* ------------------------------------------------------------------------
\* parser.c: from the source text of a regular expression to its token
\* list.  A source is the sequence of its bytes before the NUL terminator;
\* a char* is a position in it (1 is the first byte, Len + 1 the
\* terminator, 0 is NULL).  The translation covers the ASCII syntax the
\* sources of this development use; a construct outside it gives the
\* error code UNMODELLED, which no source that is checked reaches.
\* ------------------------------------------------------------------------

\* the bytes that have a meaning in the syntax, and the letters of the
\* shorthand classes (is_shorthand: d D w W s S h H)
Sym ==
   [bang |-> 33, dollar |-> 36, amp |-> 38, quote |-> 39, lp |-> 40,
    rp |-> 41, star |-> 42, plus |-> 43, minus |-> 45, dot |-> 46,
    d0 |-> 48, d7 |-> 55, d9 |-> 57, colon |-> 58, lt |-> 60, eq |-> 61,
    gt |-> 62, q |-> 63, A |-> 65, B |-> 66, E |-> 69, F |-> 70, N |-> 78,
    P |-> 80, Q |-> 81, R |-> 82, lb |-> 91, bs |-> 92, rb |-> 93, caret |-> 94,
    a |-> 97, b |-> 98, f |-> 102, g |-> 103, k |-> 107, n |-> 110,
    r |-> 114, t |-> 116, v |-> 118, x |-> 120, lc |-> 123, bar |-> 124,
    shorthand |-> {100, 68, 119, 87, 115, 83, 104, 72}]

RECURSIVE FindClosing(_, _, _, _)
\* find_closing(str, o, c), str at position p
FindClosing(src, p, o, c) ==
   LET RECURSIVE From(_, _)
       \* the for loop, str at position q
       From(q, prev) ==
          IF Deref(src, q) = NUL THEN prev
          ELSE IF src[q] = c THEN q
          ELSE IF src[q] = o
          THEN LET Nested(r) == IF r = 0 THEN 0 ELSE From(r + 1, r)
               IN Nested(FindClosing(src, q, o, c))
          ELSE IF src[q] = Sym.lb
          THEN LET Bracket(r) ==
                      From(IF r # 0 THEN r + 1 ELSE q + 1, prev)
               IN Bracket(FindClosing(src, q, Sym.lb, Sym.rb))
          ELSE IF src[q] = Sym.bs
          THEN From(IF Deref(src, q + 1) # NUL THEN q + 2 ELSE q + 1, prev)
          ELSE From(q + 1, prev)
   IN From(p + 1, 0)

\* is_number: 1 when the bytes strictly between the two positions are
\* digits or hexadecimal digits (isdigit, isxdigit) and at most nine, -1
\* when they are more, 0 when one of them is no digit
IsNumber(src, begin, end) ==
   LET IsXDigit(ch) ==
          \/ ch \in Sym.d0 .. Sym.d9
          \/ ch \in Sym.a .. Sym.f
          \/ ch \in Sym.A .. Sym.F
   IN IF \E i \in begin + 1 .. end - 1 : ~IsXDigit(Deref(src, i)) THEN 0
      ELSE IF end - 1 - begin <= 9 THEN 1
      ELSE -1

RECURSIVE ParseInt(_, _, _, _)
\* parse_int: the value of the digits strictly between the two positions
ParseInt(src, begin, end, base) ==
   LET \* hex_value
       HexValue(ch) ==
          IF ch \in Sym.d0 .. Sym.d9 THEN ch - Sym.d0
          ELSE IF ch \in Sym.a .. Sym.f THEN ch - Sym.a + 10
          ELSE ch - Sym.A + 10
   IN IF end - 1 <= begin THEN 0
      ELSE ParseInt(src, begin, end - 1, base) * base
           + HexValue(Deref(src, end - 1))

\* parse_escape at the byte after the backslash: [ok, p, value, er] with
\* ok the value returned, p the new *str, er the new shre_er
ParseEscape(src, p, er) ==
   LET ch == Deref(src, p)
       \* isoctal
       IsOctal == \A i \in p .. p + 2 : Deref(src, i) \in Sym.d0 .. Sym.d7
       Simple(value) ==
          [ok |-> TRUE, p |-> p + 1, value |-> value, er |-> er]
   IN IF IsOctal
      THEN [ok |-> TRUE, p |-> p + 3, er |-> er,
            value |-> ParseInt(src, p - 1, p + 3, 8)]
      ELSE CASE ch = Sym.d0 -> Simple(0)
             [] ch = Sym.a -> Simple(7)
             [] ch = Sym.b -> Simple(8)
             [] ch = Sym.t -> Simple(9)
             [] ch = Sym.n -> Simple(10)
             [] ch = Sym.v -> Simple(11)
             [] ch = Sym.f -> Simple(12)
             [] ch = Sym.r -> Simple(13)
             [] ch = Sym.x ->
                  [ok |-> TRUE, p |-> p + 3,
                   value |-> ParseInt(src, p, p + 3, 16),
                   er |-> IF IsNumber(src, p, p + 3) = 0 THEN "HEXESC"
                          ELSE er]
             [] OTHER -> [ok |-> FALSE, p |-> p, value |-> -1, er |-> er]

\* _parse_class of the class between the brackets at begin and end, with
\* shre_er = er: [st, class, negate, er] with class the class returned
\* (<<>> for NULL), negate the value of *negate, er the new shre_er; st is
\* "ok" unless the process died in the call ("ub" when regex ran past end)
ParseClassAt(src, begin, end, er) ==
   LET negate == Deref(src, begin + 1) = Sym.caret
       first == IF negate THEN begin + 2 ELSE begin + 1
       start == IF negate THEN begin + 1 ELSE begin
       ClassParsed(st, class, e) ==
          [st |-> st, class |-> class, negate |-> negate, er |-> e]
       Error(e) == ClassParsed("ok", <<>>, e)
       Unmodelled == Error("UNMODELLED")
       RECURSIVE Loop(_)
       \* the do loop; L holds regex (p), the class so far, prev_escape
       \* and shre_er
       Loop(L) ==
          LET ch == Deref(src, L.p)
              \* while (regex != end), after an insertion that gave r
              Continue(r, p, prev, e) ==
                 IF r.st # "ok" THEN ClassParsed(r.st, <<>>, e)
                 ELSE IF p = end THEN ClassParsed("ok", <<r.tree>>, e)
                 ELSE IF p > end THEN ClassParsed("ub", <<>>, e)
                 ELSE Loop([p |-> p, class |-> r.tree,
                            prev_escape |-> prev, er |-> e])
              Literal(c, p) ==
                 Continue(ClassInsertCodepoint(L.class, c), p, -1, L.er)
              \* a character range whose low end is known
              RangeCase(low) ==
                 IF Deref(src, L.p + 1) = Sym.bs
                 THEN LET High(e) ==
                             IF e.ok
                             THEN (IF e.er # "HEXESC" THEN Error(e.er)
                                   ELSE IF low > e.value
                                   THEN Error("BADRAN")
                                   ELSE Continue(
                                           ClassInsertRange(L.class,
                                              Range(low, e.value)),
                                           e.p, e.value, e.er))
                             ELSE IF low > Deref(src, L.p + 2)
                             THEN Error("BADRAN")
                             ELSE Continue(
                                     ClassInsertRange(L.class,
                                        Range(low, Deref(src, L.p + 2))),
                                     L.p + 3, -1, L.er)
                      IN High(ParseEscape(src, L.p + 2, L.er))
                 ELSE IF low > Deref(src, L.p + 1) THEN Error("BADRAN")
                 ELSE Continue(ClassInsertRange(L.class,
                                  Range(low, Deref(src, L.p + 1))),
                               L.p + 2, -1, L.er)
          IN CASE ch = Sym.amp ->
                    \* IsIntersectionOperator
                    IF /\ Deref(src, L.p + 1) = Sym.amp
                       /\ L.p - 1 # start
                       /\ \/ /\ Deref(src, L.p + 2) = Sym.lb
                             /\ FindClosing(src, L.p + 2, Sym.lb, Sym.rb)
                                   # end
                          \/ /\ Deref(src, L.p + 2) = Sym.bs
                             /\ Deref(src, L.p + 3) \in Sym.shorthand
                    THEN Unmodelled
                    ELSE Literal(ch, L.p + 1)
               [] ch = Sym.minus ->
                    IF L.p - 1 = start \/ L.p + 1 = end
                    THEN Literal(ch, L.p + 1)
                    \* IsDifferenceOperator
                    ELSE IF \/ /\ Deref(src, L.p + 1) = Sym.lb
                               /\ FindClosing(src, L.p + 1, Sym.lb, Sym.rb)
                                     # end
                            \/ /\ Deref(src, L.p + 1) = Sym.bs
                               /\ Deref(src, L.p + 2) \in Sym.shorthand
                    THEN Unmodelled
                    ELSE RangeCase(IF L.prev_escape >= 0
                                   THEN L.prev_escape
                                   ELSE Deref(src, L.p - 1))
               [] ch = Sym.lb ->
                    IF L.p - 1 = start THEN Literal(ch, L.p + 1)
                    ELSE IF FindClosing(src, L.p, Sym.lb, Sym.rb) = end
                    THEN Literal(ch, L.p + 1)
                    ELSE Unmodelled
               [] ch = Sym.bs ->
                    LET Escape(e) ==
                           IF e.ok
                           THEN (IF e.er # "NERROR" THEN Error(e.er)
                                 ELSE Continue(
                                         ClassInsertCodepoint(L.class,
                                                              e.value),
                                         e.p, e.value, L.er))
                           ELSE IF Deref(src, L.p + 1) \in Sym.shorthand
                           THEN Unmodelled
                           ELSE Literal(Deref(src, L.p + 1), L.p + 2)
                    IN Escape(ParseEscape(src, L.p + 1, L.er))
               [] OTHER -> Literal(ch, L.p + 1)
   IN IF first = end THEN Error("EMPCLA")
      ELSE Loop([p |-> first, class |-> ClassNew, prev_escape |-> -1,
                 er |-> er])

\* a token_t: its flag, its group number (-1 when it has none) and its
\* data: the codepoint of a LITERAL, the bytes of a STRING or NAME, the
\* class of a CLASS or NCLASS, the bounds of a RANGE, the token list of a
\* GROUP, ATOMIC, LOOKAHEAD or NLOOKAHEAD
Token(flag, ngr, data) == [flag |-> flag, ngr |-> ngr, data |-> data]

\* string_list_search: the first node of the name list with the string (0
\* when there is none)
StringListSearch(names, s) ==
   IF \E i \in 1 .. Len(names) : names[i].data = s
   THEN CHOOSE i \in 1 .. Len(names) :
           /\ names[i].data = s
           /\ \A j \in 1 .. i - 1 : names[j].data # s
   ELSE 0

RECURSIVE BadrefCheck(_, _, _)
\* badref_check: [bad, list] with bad the value returned and list the
\* token list with the NAME tokens it converted
BadrefCheck(list, max, names) ==
   IF list = <<>> THEN [bad |-> FALSE, list |-> <<>>]
   ELSE LET tok == Head(list)
            Bad == [bad |-> TRUE, list |-> list]
            Rest(t) ==
               LET Cons(r) == [bad |-> r.bad, list |-> <<t>> \o r.list]
               IN Cons(BadrefCheck(Tail(list), max, names))
        IN CASE tok.flag \in {"GROUP", "LOOKAHEAD", "NLOOKAHEAD",
                              "ATOMIC"} ->
                  LET Inner(r) ==
                         IF r.bad THEN Bad
                         ELSE Rest([tok EXCEPT !.data = r.list])
                  IN Inner(BadrefCheck(tok.data, max, names))
             [] tok.flag = "NAME" ->
                  LET Found(i) ==
                         IF i = 0 THEN Bad
                         ELSE Rest(Token(IF tok.ngr = 0 THEN "SUBROUTINE"
                                         ELSE "REFERENCE",
                                         names[i].ngr, <<>>))
                  IN Found(StringListSearch(names, tok.data))
             [] OTHER -> IF tok.ngr >= max THEN Bad ELSE Rest(tok)

\* weedeat: [st, list], list the list returned; st is "ok" unless the
\* process died in the call
Weedeat(list) ==
   LET \* part_of_string, for the token at position i
       PartOfString(i) ==
          /\ i <= Len(list)
          /\ list[i].flag = "LITERAL"
          /\ ~(i + 1 <= Len(list) /\ list[i + 1].flag = "RANGE")
       \* need_denullify
       NeedDenullify(tok) ==
          \/ tok.flag = "CLASS" /\ ClassSearch(tok.data[1], 0)
          \/ tok.flag = "NCLASS" /\ ~ClassSearch(tok.data[1], 0)
       \* denullify: [st, tok], tok the GROUP token the class token becomes
       Denullify(tok) ==
          LET Group(r) ==
                 [st |-> r.st,
                  tok |-> Token("GROUP", tok.ngr,
                                <<Token(tok.flag, -1, <<r.tree>>),
                                  Token("ALTERNATOR", -1, <<>>),
                                  Token("EDGEANCH", -1, <<>>)>>)]
          IN Group(IF tok.flag = "CLASS"
                   THEN ClassDeleteCodepoint(tok.data[1], 0)
                   ELSE ClassInsertCodepoint(tok.data[1], 0))
       RECURSIVE StringEnd(_)
       \* stringify: the last of the literals that start at position i
       StringEnd(i) == IF PartOfString(i + 1) THEN StringEnd(i + 1) ELSE i
       RECURSIVE EncodeAll(_, _)
       \* stringify: the bytes u8_encode writes for the literals at
       \* positions i to j
       EncodeAll(i, j) ==
          IF i > j THEN <<>>
          ELSE Encode(list[i].data[1]) \o EncodeAll(i + 1, j)
       \* stringify of the literals at positions i to j: [st, tok].  The
       \* array is sized by the byte length of the first literal for every
       \* literal; bytes that do not fit are written past its end
       Stringify(i, j) ==
          [st |-> IF Len(EncodeAll(i, j)) + 1
                        > 1 + (j - i + 1) * ByteLen(list[i].data[1])
                  THEN "ub" ELSE "ok",
           tok |-> Token("STRING", -1, EncodeAll(i, j))]
       RECURSIVE From(_, _)
       \* the for loop at position i, out the nodes before it as they are
       \* now
       From(i, out) ==
          IF i > Len(list) THEN [st |-> "ok", list |-> out]
          ELSE IF NeedDenullify(list[i])
          THEN LET Put(r) ==
                      IF r.st # "ok" THEN [st |-> r.st, list |-> out]
                      ELSE From(i + 1, Append(out, r.tok))
               IN Put(Denullify(list[i]))
          ELSE IF PartOfString(i)
          THEN LET String(j) ==
                      IF Stringify(i, j).st # "ok"
                      THEN [st |-> "ub", list |-> out]
                      ELSE From(j + 1, Append(out, Stringify(i, j).tok))
               IN String(StringEnd(i))
          ELSE IF list[i].flag = "POSSESSIVE"
          THEN \* convert_possessive: the two nodes before become the
               \* list of an ATOMIC token
               From(i + 1,
                    Append(SubSeq(out, 1, Len(out) - 2),
                           Token("ATOMIC", list[i].ngr,
                                 SubSeq(out, Len(out) - 1, Len(out)))))
          ELSE IF list[i].flag = "LITERAL"
          THEN \* convert_literal
               From(i + 1,
                    Append(out, Token("CLASS", list[i].ngr,
                                      <<ClassConstruct(list[i].data[1],
                                                       list[i].data[1])>>)))
          ELSE From(i + 1, Append(out, list[i]))
   IN From(1, <<>>)

RECURSIVE ParseRegexAt(_, _, _, _)
\* _parse_regex of the text from position p to position end, with
\* G = [next_group, names, er] the values of *next_group, the name list
\* and shre_er: [st, null, list, next_group, names, er] with list the list
\* returned (null for NULL); st is "ok" unless the process died in the
\* call ("assert" for a failed assertion, "ub" when regex ran past end)
ParseRegexAt(src, p, end, G) ==
   LET top_level == Deref(src, end) = NUL
       Parsed(st, null, list, H) ==
          [st |-> st, null |-> null, list |-> list,
           next_group |-> H.next_group, names |-> H.names, er |-> H.er]
       \* strchr(q, c)
       StrChr(q, c) ==
          IF \E i \in q .. Len(src) : src[i] = c
          THEN CHOOSE i \in q .. Len(src) :
                  src[i] = c /\ \A j \in q .. i - 1 : src[j] # c
          ELSE 0
       \* range_applicable
       RangeApplicable(prev_flag) ==
          prev_flag \in {"LITERAL", "CLASS", "NCLASS", "GROUP",
                         "REFERENCE", "ATOMIC", "SUBROUTINE"}
       \* lazy_applicable
       LazyApplicable(prev_flag) == prev_flag = "RANGE"
       RECURSIVE Loop(_)
       \* the do loop and what follows it; L holds regex (p), the list so
       \* far, prev_flag, *next_group, the name list and shre_er
       Loop(L) ==
          LET ch == Deref(src, L.p)
              Error(er) == Parsed("ok", TRUE, <<>>, [L EXCEPT !.er = er])
              \* tlist_push_back(list, token); prev_flag = token.flag
              Push(tok, q, H) ==
                 Loop([p |-> q, list |-> Append(L.list, tok),
                       prev_flag |-> tok.flag,
                       next_group |-> H.next_group, names |-> H.names,
                       er |-> H.er])
              Flag(flag) == Push(Token(flag, -1, <<>>), L.p + 1, L)
              SetRange(a, b) == Push(Token("RANGE", -1, <<a, b>>),
                                     L.p + 1, L)
              \* return weedeat(list), after the assertion
              Return(list) ==
                 IF L.er # "NERROR" THEN Parsed("assert", TRUE, <<>>, L)
                 ELSE LET Weeded(w) == Parsed(w.st, FALSE, w.list, L)
                      IN Weeded(Weedeat(list))
              \* case '[' with the closing bracket at back
              Class(back) ==
                 LET Made(c) ==
                        IF c.st # "ok"
                        THEN Parsed(c.st, TRUE, <<>>, L)
                        ELSE IF c.class = <<>> THEN Error(c.er)
                        ELSE Push(Token(IF c.negate THEN "NCLASS"
                                        ELSE "CLASS", -1, c.class),
                                  back + 1, [L EXCEPT !.er = c.er])
                 IN IF back = 0 THEN Error("UNBBRA")
                    ELSE Made(ParseClassAt(src, L.p, back, L.er))
              \* case '(' with the closing parenthesis at back
              Paren(back) ==
                 LET \* token.data.group = _parse_regex(regex + 1, back,
                     \* next_group, name_list), regex + 1 being from
                     Group(flag, capture, from, names) ==
                        LET Inner(r) ==
                               IF r.st # "ok" \/ r.null THEN r
                               ELSE Push(Token(flag,
                                               IF capture
                                               THEN L.next_group ELSE -1,
                                               r.list), back + 1, r)
                        IN Inner(ParseRegexAt(src, from, back,
                                    [next_group |-> IF capture
                                                    THEN L.next_group + 1
                                                    ELSE L.next_group,
                                     names |-> names, er |-> L.er]))
                     \* the named group whose name starts at position n
                     Named(n) ==
                        LET bracket ==
                               StrChr(n, IF Deref(src, n - 1) = Sym.lt
                                         THEN Sym.gt ELSE Sym.quote)
                        IN IF Deref(src, n) \in Sym.d0 .. Sym.d9
                           THEN Error("GRPDIG")
                           ELSE IF bracket = 0 \/ bracket >= back
                           THEN Error("QUEPAR")
                           ELSE IF StringListSearch(L.names,
                                      SubSeq(src, n, bracket - 1)) # 0
                           THEN Error("NAMEXT")
                           ELSE Group("GROUP", TRUE, bracket + 1,
                                      Append(L.names,
                                         Token("NAME", L.next_group,
                                               SubSeq(src, n,
                                                      bracket - 1))))
                     c2 == Deref(src, L.p + 2)
                 IN IF back = 0 \/ back = end THEN Error("UNBPAR")
                    ELSE IF Deref(src, L.p + 1) # Sym.q
                    THEN Group("GROUP", TRUE, L.p + 1, L.names)
                    ELSE IF IsNumber(src, L.p + 1, back) = 1
                    THEN Push(Token("SUBROUTINE",
                                    ParseInt(src, L.p + 1, back, 10),
                                    <<>>), back + 1, L)
                    ELSE CASE c2 = Sym.eq ->
                                Group("LOOKAHEAD", FALSE, L.p + 3, L.names)
                           [] c2 = Sym.bang ->
                                Group("NLOOKAHEAD", FALSE, L.p + 3, L.names)
                           [] c2 = Sym.P ->
                                IF Deref(src, L.p + 3)
                                      \in {Sym.lt, Sym.quote}
                                THEN Named(L.p + 4)
                                ELSE Error("QUEPAR")
                           [] c2 \in {Sym.lt, Sym.quote} -> Named(L.p + 3)
                           [] c2 = Sym.amp ->
                                Push(Token("NAME", 0,
                                           SubSeq(src, L.p + 3, back - 1)),
                                     back + 1, L)
                           [] c2 = Sym.R ->
                                IF L.p + 3 # back THEN Error("QUEPAR")
                                ELSE Push(Token("SUBROUTINE", 0, <<>>),
                                          back + 1, L)
                           [] c2 = Sym.gt ->
                                Group("ATOMIC", FALSE, L.p + 3, L.names)
                           [] c2 = Sym.colon ->
                                Group("GROUP", FALSE, L.p + 3, L.names)
                           [] OTHER -> Error("QUEPAR")
              \* case '\\'
              Backslash ==
                 LET c1 == Deref(src, L.p + 1)
                     \* \g and \k, regex at position r after the letter
                     GroupRef(r) ==
                        LET back == IF Deref(src, r) = Sym.quote
                                    THEN StrChr(r + 1, Sym.quote)
                                    ELSE IF Deref(src, r) = Sym.lt
                                    THEN StrChr(r + 1, Sym.gt)
                                    ELSE 0
                        IN IF back = 0
                           THEN Push(Token("LITERAL", -1, <<c1>>), r, L)
                           ELSE IF IsNumber(src, r, back) = 0
                           THEN Push(Token("NAME", -1,
                                           SubSeq(src, r + 1, back - 1)),
                                     back + 1, L)
                           ELSE IF IsNumber(src, r, back) = 1
                           THEN Push(Token("REFERENCE",
                                           ParseInt(src, r, back, 10),
                                           <<>>), back + 1, L)
                           ELSE Error("BADINT")
                     \* the while loop of the \Q...\E syntax stops at r
                     QuoteEnds(r) ==
                        \/ Deref(src, r) = NUL
                        \/ Deref(src, r) = Sym.bs
                        \/ Deref(src, r + 1) = Sym.E
                     \* \Q...\E, regex at position q after the Q: \Q\E
                     \* continues the do loop without a token
                     Quote(q) ==
                        IF Deref(src, q) = Sym.bs /\ Deref(src, q + 1) = Sym.E
                        THEN Loop([L EXCEPT !.p = q + 2])
                        ELSE LET stop == CHOOSE r \in q .. Len(src) + 1 :
                                            /\ QuoteEnds(r)
                                            /\ \A j \in q .. r - 1 :
                                                  ~QuoteEnds(j)
                             IN Push(Token("STRING", -1,
                                           SubSeq(src, q, stop - 1)),
                                     IF Deref(src, stop) # NUL
                                     THEN stop + 2 ELSE stop, L)
                     Escape(e) ==
                        IF e.ok
                        THEN (IF e.er # "NERROR" THEN Error(e.er)
                              ELSE Push(Token("LITERAL", -1, <<e.value>>),
                                        e.p, L))
                        ELSE IF \/ c1 = Sym.N
                                \/ c1 \in Sym.shorthand
                        THEN Error("UNMODELLED")
                        ELSE IF c1 = Sym.Q
                        THEN Quote(L.p + 2)
                        ELSE IF c1 \in Sym.d0 .. Sym.d9
                        THEN Push(Token("REFERENCE", c1 - Sym.d0, <<>>),
                                  L.p + 2, L)
                        ELSE IF c1 \in {Sym.g, Sym.k}
                        THEN GroupRef(L.p + 2)
                        ELSE Push(Token("LITERAL", -1, <<c1>>), L.p + 2, L)
                 IN IF c1 = NUL THEN Error("BOGESC")
                    ELSE IF c1 = Sym.b
                    THEN Push(Token("WORDANCH", -1, <<>>), L.p + 2, L)
                    ELSE IF c1 = Sym.B
                    THEN Push(Token("NWORDANCH", -1, <<>>), L.p + 2, L)
                    ELSE IF c1 = Sym.d0
                    THEN Push(Token("EDGEANCH", -1, <<>>), L.p + 2, L)
                    ELSE Escape(ParseEscape(src, L.p + 1, L.er))
          IN IF L.p = end
             THEN (IF top_level
                   THEN LET Checked(r) ==
                               IF r.bad THEN Error("BADREF")
                               ELSE Return(r.list)
                        IN Checked(BadrefCheck(L.list, L.next_group,
                                               L.names))
                   ELSE Return(L.list))
             ELSE IF L.p > end THEN Parsed("ub", TRUE, <<>>, L)
             ELSE CASE ch = Sym.bar -> Flag("ALTERNATOR")
                    [] ch = Sym.lb ->
                         Class(FindClosing(src, L.p, Sym.lb, Sym.rb))
                    [] ch = Sym.dot -> Error("UNMODELLED")
                    [] ch = Sym.caret -> Flag("STANCH")
                    [] ch = Sym.dollar -> Flag("EDGEANCH")
                    [] ch = Sym.rp -> Error("UNBPAR")
                    [] ch = Sym.lp ->
                         Paren(FindClosing(src, L.p, Sym.lp, Sym.rp))
                    [] ch = Sym.q ->
                         IF RangeApplicable(L.prev_flag)
                         THEN SetRange(0, 1)
                         ELSE IF LazyApplicable(L.prev_flag)
                         THEN Flag("LAZY")
                         ELSE Error("NOTREP")
                    [] ch = Sym.plus ->
                         IF RangeApplicable(L.prev_flag)
                         THEN SetRange(1, -1)
                         ELSE IF LazyApplicable(L.prev_flag)
                         THEN Flag("POSSESSIVE")
                         ELSE Error("NOTREP")
                    [] ch = Sym.star ->
                         IF ~RangeApplicable(L.prev_flag)
                         THEN Error("NOTREP")
                         ELSE SetRange(0, -1)
                    [] ch = Sym.lc -> Error("UNMODELLED")
                    [] ch = Sym.bs -> Backslash
                    [] OTHER ->
                         Push(Token("LITERAL", -1, <<ch>>), L.p + 1, L)
   IN IF p = end
      THEN Parsed("ok", FALSE, <<Token("EMPTY", -1, <<>>)>>, G)
      ELSE IF Deref(src, p) \in {Sym.star, Sym.q, Sym.plus}
      THEN Parsed("ok", TRUE, <<>>, [G EXCEPT !.er = "NOTREP"])
      ELSE IF Deref(src, p) = Sym.lc
      THEN Parsed("ok", TRUE, <<>>, [G EXCEPT !.er = "UNMODELLED"])
      ELSE Loop([p |-> p, list |-> <<>>, prev_flag |-> "NONE",
                 next_group |-> G.next_group, names |-> G.names,
                 er |-> G.er])

\* parse_regex: shre_er = NERROR, the groups are counted from 1, and the
\* names of the name list are added to a new table of group names (key:
\* name, object: group number); [st, null, tokens, group_names, er] with
\* group_names <<>> when *group_names is left as it was
ParseRegex(src) ==
   LET RECURSIVE Names(_, _, _)
       \* the do loop at node i of the name list
       Names(list, i, table) ==
          IF i > Len(list) THEN table
          ELSE Names(list, i + 1,
                     ObhashAdd(table, list[i].data, list[i].ngr))
       Table(r) ==
          [st |-> r.st, null |-> r.null, tokens |-> r.list, er |-> r.er,
           group_names |-> IF r.st # "ok" \/ r.null \/ r.names = <<>>
                           THEN <<>>
                           ELSE <<Names(r.names, 1, ObhashNew)>>]
   IN Table(ParseRegexAt(src, 1, Len(src) + 1,
                         [next_group |-> 1, names |-> <<>>,
                          er |-> "NERROR"]))

\* ------------------------------------------------------------------------
\* clist.c, factory.c: the matcher graph build_core makes of a token list.
\* A clist node is [index, pointer, next]; a clist_t* is the number of the
\* node in the sequence of the nodes allocated (0 for NULL); an atom_t* is
\* the place <<core, branch, atom>> of the atom in the table of cores
\* (<<>> for NULL).
\* ------------------------------------------------------------------------

\* clist_new(prev, c, i): [clist, node], the nodes after the call and the
\* node returned.  A node made for a non-NULL prev has next NULL, and the
\* next of prev is left as it was.
ClistNew(clist, prev, c, i) ==
   IF prev # 0 /\ clist[prev].pointer = <<>>
   THEN [clist |-> [clist EXCEPT ![prev] = [@ EXCEPT !.pointer = c,
                                                      !.index = i]],
         node |-> prev]
   ELSE [clist |-> Append(clist,
                      IF prev = 0
                      THEN [index |-> -1, pointer |-> <<>>, next |-> 0]
                      ELSE [index |-> i, pointer |-> c, next |-> 0]),
         node |-> Len(clist) + 1]

RECURSIVE CoreFindCore(_, _, _)
\* core_find_core: the number of the first core with the group index
\* among the core and the cores nested in its Group, Atomic and LookAhead
\* atoms, 0 (NULL) when there is none
CoreFindCore(pat, cid, index) ==
   LET core == pat.cores[cid]
       RECURSIVE Scan(_, _)
       \* the loops over the branches and their atoms at atom i of
       \* branch b
       Scan(b, i) ==
          IF b > Len(core.branches) THEN 0
          ELSE IF i > Len(core.branches[b]) THEN Scan(b + 1, 1)
          ELSE IF ~AtomHasGroup(core.branches[b][i]) THEN Scan(b, i + 1)
          ELSE LET Inner(n) == IF n # 0 THEN n ELSE Scan(b, i + 1)
               IN Inner(CoreFindCore(pat, core.branches[b][i].group, index))
   IN IF index = core.index THEN cid ELSE Scan(1, 1)

RECURSIVE BuildCoreAt(_, _, _, _)
\* _build_core(tokens, index, subs) with F = [cores, clist] the cores and
\* the clist nodes made so far: [st, cores, clist, core], core the number
\* of the core returned; st is "assert" when an assertion failed
BuildCoreAt(tokens, index, subs, F) ==
   LET my == Len(F.cores) + 1
       RECURSIVE Loop(_, _)
       \* the do loop at token t; B holds the branches of the core, curr,
       \* subs, the table of cores and the clist nodes
       Loop(t, B) ==
          LET token == tokens[t]
              branch == Len(B.branches)
              Done(C) ==
                 [st |-> C.st,
                  cores |-> [C.cores EXCEPT ![my] = Core(index, C.branches)],
                  clist |-> C.clist, core |-> my]
              Continue(C) == IF C.st # "ok" \/ t = Len(tokens) THEN Done(C)
                         ELSE Loop(t + 1, C)
              \* curr = branch_add_atom(branch), then the setters
              Add(atom) ==
                 [B EXCEPT !.branches[branch] = Append(@, atom),
                           !.curr = <<branch, Len(B.branches[branch]) + 1>>]
              New == AtomNew(Len(B.branches[branch]))
              \* the setter applied to *curr
              Set(setter) ==
                 IF B.curr = <<>> THEN [B EXCEPT !.st = "assert"]
                 ELSE [B EXCEPT !.branches[B.curr[1]][B.curr[2]] =
                                   IF setter = "range"
                                   THEN AtomSetRange(@, token.data[1],
                                                     token.data[2])
                                   ELSE AtomSetGreedy(@, FALSE)]
              \* the atom of a nested core
              Nested(flag, invert) ==
                 LET Made(r) ==
                        [Add(AtomSetInvert(AtomSetCore(New, r.core, flag),
                                           invert))
                         EXCEPT !.st = r.st, !.cores = r.cores,
                                !.clist = r.clist]
                 IN Made(BuildCoreAt(token.data, token.ngr, B.subs,
                                     [cores |-> B.cores,
                                      clist |-> B.clist]))
              Sub(r) == [Add(New) EXCEPT !.clist = r.clist,
                                         !.subs = r.node]
          IN CASE token.flag = "EMPTY" -> Continue(B)
               [] token.flag = "ALTERNATOR" ->
                    Continue([B EXCEPT !.branches = Append(@, <<>>)])
               [] token.flag = "STRING" ->
                    Continue(Add(AtomSetString(New, token.data)))
               [] token.flag = "CLASS" ->
                    Continue(Add(AtomSetInvert(
                                AtomSetClass(New, token.data[1]), FALSE)))
               [] token.flag = "NCLASS" ->
                    Continue(Add(AtomSetInvert(
                                AtomSetClass(New, token.data[1]), TRUE)))
               [] token.flag = "RANGE" -> Continue(Set("range"))
               [] token.flag = "GROUP" -> Continue(Nested(0, FALSE))
               [] token.flag = "ATOMIC" -> Continue(Nested(1, FALSE))
               [] token.flag = "REFERENCE" ->
                    Continue(Add(AtomSetReference(New, token.ngr)))
               [] token.flag = "LOOKAHEAD" -> Continue(Nested(2, FALSE))
               [] token.flag = "NLOOKAHEAD" -> Continue(Nested(2, TRUE))
               [] token.flag = "SUBROUTINE" ->
                    Continue(Sub(ClistNew(B.clist, B.subs,
                                      <<my, branch,
                                        Len(B.branches[branch]) + 1>>,
                                      token.ngr)))
               [] token.flag = "WORDANCH" ->
                    Continue(Add(AtomSetAnchor(New, 1)))
               [] token.flag = "NWORDANCH" ->
                    Continue(Add(AtomSetInvert(AtomSetAnchor(New, 1), TRUE)))
               [] token.flag = "STANCH" ->
                    Continue(Add(AtomSetInvert(AtomSetAnchor(New, 2), TRUE)))
               [] token.flag = "EDGEANCH" ->
                    Continue(Add(AtomSetAnchor(New, 2)))
               [] token.flag = "LAZY" -> Continue(Set("lazy"))
               [] OTHER -> Done([B EXCEPT !.st = "assert"])
   IN IF tokens = <<>>
      THEN [st |-> "assert", cores |-> F.cores, clist |-> F.clist,
            core |-> 0]
      ELSE Loop(1, [st |-> "ok", branches |-> << <<>> >>, curr |-> <<>>,
                    subs |-> subs,
                    cores |-> Append(F.cores, Core(index, <<>>)),
                    clist |-> F.clist])

\* build_core: [st, cores], the pattern with its root core in entry 1.
\* The for loop follows the next pointers from the first clist node.
BuildCore(tokens) ==
   LET first == ClistNew(<<>>, 0, <<>>, 0)
       RECURSIVE Resolve(_, _)
       \* the for loop at node cl
       Resolve(pat, cl) ==
          IF cl = 0 \/ pat.clist[cl].pointer = <<>> THEN pat
          ELSE LET at == pat.clist[cl].pointer
               IN Resolve(
                     [pat EXCEPT
                         !.cores[at[1]].branches[at[2]][at[3]] =
                            AtomSetCore(@, CoreFindCore(pat, 1,
                                              pat.clist[cl].index), 4)],
                     pat.clist[cl].next)
       Built(r) == IF r.st # "ok" THEN [st |-> r.st, cores |-> r.cores]
                   ELSE [st |-> "ok",
                         cores |-> Resolve(r, first.node).cores]
   IN Built(BuildCoreAt(tokens, 0, first.node,
                        [cores |-> <<>>, clist |-> first.clist]))

\* ------------------------------------------------------------------------
\* shre.c: the pattern table and the functions of shre.h on a source.  The
\* global ptable is <<>> (NULL) or <<table>>; a pattern_t is its regex, its
\* names, its core and the number of its allocation; a pointer to an
\* object is <<>> (NULL) or <<object>>.
\* ------------------------------------------------------------------------

\* shre_compile(regex) with the table tab and shre_er = er: [st, ret, tab,
\* er]; st is "assert" when an assertion failed.  The pattern malloc
\* returns is told from the patterns in the table by its serial.
ShreCompile(tab, er, regex) ==
   LET Result(st, ret, t, e) == [st |-> st, ret |-> ret, tab |-> t, er |-> e]
       Built(p, core) ==
          LET pattern == [regex |-> regex, names |-> p.group_names,
                          core |-> [cores |-> core.cores],
                          serial |-> tab[1].load + 1]
          IN IF core.st # "ok" THEN Result(core.st, <<>>, tab, p.er)
             ELSE Result("ok", <<pattern>>,
                         <<ObhashAdd(tab[1], regex, pattern)>>, p.er)
       Parse(p) ==
          IF p.st # "ok" THEN Result(p.st, <<>>, tab, p.er)
          ELSE IF p.null THEN Result("ok", <<>>, tab, p.er)
          ELSE Built(p, BuildCore(p.tokens))
   IN IF tab = <<>> THEN Result("assert", <<>>, tab, er)
      ELSE IF ObhashFind(tab[1], regex) # <<>>
      THEN Result("ok", ObhashFind(tab[1], regex), tab, er)
      ELSE Parse(ParseRegex(regex))

\* shre_search(pattern, text) and, with entire, shre_entire(pattern, text),
\* after their assertions: [st, ret], ret the match (its groups, its names
\* and its offset)
SearchPattern(pattern, text, entire) ==
   LET Match(gr) == <<[groups |-> gr, names |-> pattern.names,
                       offset |-> gr[0].b - 1]>>
       Call(s) == CoreMatch([pat |-> pattern.core, input |-> text,
                             head |-> 1, d |-> 0],
                            1, s, <<>>, <<>>, <<>>, 0)
       RECURSIVE From(_)
       \* the for loop of shre_search at str = s
       From(s) ==
          LET Return(r) ==
                 IF r.st # "ok" THEN [st |-> r.st, ret |-> <<>>]
                 ELSE IF r.found THEN [st |-> "ok", ret |-> Match(r.gr)]
                 ELSE IF Deref(text, s) = NUL
                 THEN [st |-> "ok", ret |-> <<>>]
                 ELSE From(s + 1)
          IN Return(Call(s))
       Entire(r) ==
          IF r.st # "ok" THEN [st |-> r.st, ret |-> <<>>]
          ELSE IF r.found /\ Deref(text, r.gr[0].e) = NUL
          THEN [st |-> "ok", ret |-> Match(r.gr)]
          ELSE [st |-> "ok", ret |-> <<>>]
   IN IF entire THEN Entire(Call(1)) ELSE From(1)

\* quick_search(regex, text) and, with entire, quick_entire(regex, text),
\* after shre_compile gave the pattern: [st, ret], ret the bool returned
QuickPattern(pattern, text, entire) ==
   LET Call(s) == CoreMatch([pat |-> pattern.core, input |-> text,
                             head |-> 1, d |-> 0],
                            1, s, <<>>, <<>>, <<>>, 0)
       RECURSIVE From(_)
       \* the while loop of quick_search at str = s
       From(s) ==
          LET Return(r) ==
                 IF r.st # "ok" THEN [st |-> r.st, ret |-> FALSE]
                 ELSE IF r.found THEN [st |-> "ok", ret |-> TRUE]
                 ELSE From(s + 1)
          IN IF Deref(text, s) = NUL THEN [st |-> "ok", ret |-> FALSE]
             ELSE Return(Call(s + 1))
       Entire(r) ==
          [st |-> r.st,
           ret |-> r.st = "ok" /\ r.found /\ Deref(text, r.gr[0].e) = NUL]
   IN IF entire THEN Entire(Call(1)) ELSE From(1)

\* match_group(match, gr): <<the bytes of the substring>>, <<>> for NULL
MatchGroupOf(text, m, gr) ==
   IF gr \notin DOMAIN m.groups \/ m.groups[gr].b = 0 THEN <<>>
   ELSE <<SubSeq(text, m.groups[gr].b, m.groups[gr].e - 1)>>

\* match_named_group(match, grname)
MatchNamedGroup(text, m, grname) ==
   IF m.names = <<>> \/ ObhashFind(m.names[1], grname) = <<>> THEN <<>>
   ELSE MatchGroupOf(text, m, ObhashFind(m.names[1], grname)[1])

\* ------------------------------------------------------------------------
\* shre.c: shre_search on a compiled pattern, step by step.  The top-level
\* core_match call of each start offset is run one atom_match at a time.
\* ------------------------------------------------------------------------

VARIABLES
   pname,    \* the source of the compiled pattern
   input,    \* the bytes of the input before its NUL terminator
   pc,       \* where shre_search is
   str,      \* the start offset shre_search is trying
   nbr,      \* core_match: number of the current branch of the root core
   stack,    \* core_match: the local backtrack stack of the root core
   groups,   \* core_match: the capture array
   match,    \* the match_t returned, <<>> before and for NULL
   cls,      \* the class_t under operation
   cpc,      \* "ok" while the process using the class runs, "segv" after
             \* it died, "off" when no class is in use
   cprev,    \* cls before the last operation
   cop,      \* the last operation and its arguments
   nops,     \* number of operations so far
   ucode,    \* the u8cdpnt_t under operation
   ubuf,     \* the char array the code is read from or written to
   ucp,      \* the codepoint given to u8_new, -1 when a string was given
   upc,      \* "new", "string", "encoded", "decoded"; "off" when no
             \* code is in use
   acall,    \* the last function of shre.h called on the pattern and input
   aret,     \* what it returned
   curr,     \* the read position of the scanner (sc->curr)
   nscan,    \* number of matches scan_next returned so far
   apc,      \* "ok" while the calling process runs, "overflow" or "ub"
             \* after it died, "off" when the functions are not in use
   pool,     \* the sources, inputs and group names the caller draws the
             \* arguments of its calls from
   ptable,   \* the global ptable: <<>> (NULL) or <<the pattern table>>
   shre_er,  \* the global shre_er
   scall,    \* the last function of shre.h called, its arguments and
             \* what it returned
   since,    \* the sources compiled successfully since the last
             \* clear_cache, each with the pattern returned for it first
   live,     \* start_regex_engine returned and cleanup_regex_engine has
             \* not been called since
   lpc       \* "run" while the calling process runs, "assert", "ub" or
             \* "overflow" after it died, "off" when the table is not in
             \* use

\* the variables of a search
evars == <<pname, input, pc, str, nbr, stack, groups, match>>

\* the variables of a character class
cvars == <<cls, cpc, cprev, cop, nops>>

\* the variables of a UTF-8 code
uvars == <<ucode, ubuf, ucp, upc>>

\* the variables of the calls of shre.h
avars == <<acall, aret, curr, nscan, apc>>

\* the variables of the pattern table
svars == <<pool, ptable, shre_er, scall, since, live, lpc>>

vars == <<evars, cvars, uvars, avars, svars>>

\* what a function returns: a match_t* (<<>> for NULL) or a bool
Returned(m, ok) == [match |-> m, ok |-> ok]

\* no function of shre.h was called
ApiOff ==
   /\ acall = "none"
   /\ aret = Returned(<<>>, FALSE)
   /\ curr = 1
   /\ nscan = 0
   /\ apc = "off"

\* a pool of the sources, the inputs and the group names given
Pool(kind, srcs, texts, names, parts) ==
   [kind |-> kind, srcs |-> srcs, texts |-> texts, names |-> names,
    parts |-> parts]

\* a call record; was tells whether start_regex_engine had returned, and
\* cleanup_regex_engine had not been called since, when the call was made
Called(fn, regex, text, ret) ==
   [fn |-> fn, regex |-> regex, text |-> text, ret |-> ret, was |-> FALSE]

\* the pattern table is not in use
ShreOff ==
   /\ pool = Pool("none", {}, {}, {}, <<>>)
   /\ ptable = <<>>
   /\ shre_er = "NERROR"
   /\ scall = Called("none", <<>>, <<>>, <<>>)
   /\ since = <<>>
   /\ live = FALSE
   /\ lpc = "off"

\* no u8cdpnt_t is in use
U8Off ==
   /\ ucode = U8New(0)
   /\ ubuf = <<>>
   /\ ucp = -1
   /\ upc = "off"

\* cop before the first operation
NoOp == [name |-> "none", range |-> <<>>, right |-> <<>>]

RECURSIVE Strings(_, _)
\* the byte strings of length up to n over an alphabet
Strings(alphabet, n) ==
   IF n = 0 THEN {<<>>}
   ELSE LET shorter == Strings(alphabet, n - 1)
        IN shorter \cup {Append(s, x) : s \in shorter, x \in alphabet}

\* inputs of the end-to-end scenarios
ScenarioInputs ==
   { <<Ch.a, Ch.b, Ch.c, Ch.b, Ch.c, Ch.d>>,
     <<Ch.a, Ch.a, Ch.a, Ch.a, Ch.X>>,
     <<Ch.a, Ch.b, Ch.d>>,
     <<Ch.a, Ch.a, Ch.b, Ch.c>> }

\* inputs with a character that is not a word character
WordInputs == Strings({Ch.a, Ch.dash}, MaxLen)

Inputs ==
   Strings({Ch.a, Ch.b, Ch.c}, MaxLen) \cup ScenarioInputs \cup WordInputs

\* the pattern being matched
Pat == Patterns[pname]

\* the context of the calls made from the top-level core_match:
\* head is the start of the input, one core_match call is active
Ctx == [pat |-> Pat, input |-> input, head |-> 1, d |-> 1]

\* the branch of the root core being matched
CurrBranch == Root(Pat).branches[nbr + 1]

\* the top-level core_match call at offset o, run to its end
TopMatch(o) ==
   CoreMatch([pat |-> Pat, input |-> input, head |-> 1, d |-> 0],
             1, o, <<>>, <<>>, <<>>, 0)

\* an increment that skips an offset
SearchAdvanceSkip(s) == s + 2

\* the increment of the for loop of shre_search
SearchAdvance(s) == s + 1

Init ==
   /\ ShreOff
   /\ pname \in DOMAIN Patterns
   /\ input \in Inputs
   /\ pc = "search"
   /\ str = 1
   /\ nbr = 0
   /\ stack = <<>>
   /\ groups = <<>>
   /\ match = <<>>
   /\ cls = ClassNew
   /\ cpc = "off"
   /\ cprev = ClassNew
   /\ cop = NoOp
   /\ nops = 0
   /\ U8Off
   /\ ApiOff

\* shre_search calls core_match(pattern->core, str, NULL, NULL, NULL, 0,
\* &trash, start): a fresh capture array, slot 0 nulled, branch 0, a new
\* stack holding the start frame
CoreMatchEnter ==
   /\ pc = "search"
   /\ pc' = "branch"
   /\ groups' = CoreEntryGroups(Pat, 1, <<>>)
   /\ nbr' = 0
   /\ stack' = PushStart(<<>>, str)
   /\ UNCHANGED <<cvars, uvars, avars, svars, pname, input, str, match>>

\* branch_match: the top frame names an atom of the branch; atom_match.
\* A call that exhausts the native stack or uses a released snapshot ends
\* the process.
BranchMatchAtom ==
   /\ pc = "branch"
   /\ stack # <<>>
   /\ BtsTop(stack).index # Len(CurrBranch)
   /\ LET Step(r) ==
             /\ pc' = IF r.st = "ok" THEN "branch" ELSE r.st
             /\ stack' = r.stack
             /\ groups' = r.gr
      IN Step(AtomMatch(Ctx, CurrBranch[BtsTop(stack).index + 1],
                        stack, groups))
   /\ UNCHANGED <<cvars, uvars, avars, svars, pname, input, str, nbr, match>>

\* branch_match returns the position of a top frame that is past the last
\* atom; core_match FoundMatch records slot 0 and frees the stack, and
\* shre_search returns match_new(groups, names, begin - start)
FoundMatch ==
   /\ pc = "branch"
   /\ stack # <<>>
   /\ BtsTop(stack).index = Len(CurrBranch)
   /\ pc' = "found"
   /\ groups' = RecordCapture(Root(Pat), groups, str, BtsTop(stack).str)
   /\ stack' = <<>>
   /\ match' = <<[groups |-> groups', offset |-> groups'[0].b - 1]>>
   /\ UNCHANGED <<cvars, uvars, avars, svars, pname, input, str, nbr>>

\* branch_match returned NULL and there is a next branch
CoreMatchNextBranch ==
   /\ pc = "branch"
   /\ stack = <<>>
   /\ nbr + 1 < Len(Root(Pat).branches)
   /\ nbr' = nbr + 1
   /\ stack' = PushStart(stack, str)
   /\ UNCHANGED <<cvars, uvars, avars, svars, pname, input, pc, str, groups, match>>

\* branch_match returned NULL on the last branch: core_match frees the
\* stack and the capture array and returns NULL; shre_search goes on with
\* the next offset, or returns NULL when this offset was the terminator
CoreMatchFail ==
   /\ pc = "branch"
   /\ stack = <<>>
   /\ nbr + 1 >= Len(Root(Pat).branches)
   /\ groups' = <<>>
   /\ IF Deref(input, str) = NUL
      THEN pc' = "nomatch" /\ str' = str
      ELSE pc' = "search" /\ str' = SearchAdvance(str)
   /\ UNCHANGED <<cvars, uvars, avars, svars, pname, input, nbr, stack, match>>

Next ==
   \/ CoreMatchEnter
   \/ BranchMatchAtom
   \/ FoundMatch
   \/ CoreMatchNextBranch
   \/ CoreMatchFail

Spec == Init /\ [][Next]_vars

\* ------------------------------------------------------------------------
\* The operations of class.h on one class that class_new made
\* ------------------------------------------------------------------------

\* the codepoints and the ranges given to the operations
Codepoints == 0 .. MaxCp

Ranges == {r \in [lo : Codepoints, hi : Codepoints] : r.lo <= r.hi}

RECURSIVE RunEnd(_, _)
\* the last codepoint of the run of S that starts at lo
RunEnd(S, lo) == IF lo + 1 \in S THEN RunEnd(S, lo + 1) ELSE lo

RECURSIVE InsertRuns(_, _)
\* class_insert_range of the runs of the set S, the lowest first
InsertRuns(tree, S) ==
   IF S = {} THEN tree
   ELSE LET lo == CHOOSE x \in S : \A y \in S : x <= y
            hi == RunEnd(S, lo)
        IN InsertRuns(ClassInsertRange(tree, Range(lo, hi)).tree,
                      S \ (lo .. hi))

\* the right arguments of class_union and class_difference: a class for
\* every set of codepoints
Operands == {InsertRuns(ClassNew, S) : S \in SUBSET Codepoints}

ClassInit ==
   /\ ShreOff
   /\ pname = "p_star"
   /\ input = <<>>
   /\ pc = "off"
   /\ str = 1
   /\ nbr = 0
   /\ stack = <<>>
   /\ groups = <<>>
   /\ match = <<>>
   /\ cls = ClassNew
   /\ cpc = "ok"
   /\ cprev = ClassNew
   /\ cop = NoOp
   /\ nops = 0
   /\ U8Off
   /\ ApiOff

\* the state after an operation that gave r
ClassReturn(name, range, right, r) ==
   /\ cprev' = cls
   /\ cop' = [name |-> name, range |-> range, right |-> right]
   /\ cpc' = r.st
   /\ cls' = r.tree
   /\ nops' = nops + 1
   /\ UNCHANGED <<evars, uvars, avars, svars>>

DoClassInsertCodepoint ==
   /\ cpc = "ok"
   /\ nops < MaxOps
   /\ \E cp \in Codepoints :
         ClassReturn("class_insert_codepoint", <<Range(cp, cp)>>, <<>>,
                     ClassInsertCodepoint(cls, cp))

DoClassInsertRange ==
   /\ cpc = "ok"
   /\ nops < MaxOps
   /\ \E range \in Ranges :
         ClassReturn("class_insert_range", <<range>>, <<>>,
                     ClassInsertRange(cls, range))

DoClassDeleteCodepoint ==
   /\ cpc = "ok"
   /\ nops < MaxOps
   /\ \E cp \in Codepoints :
         ClassReturn("class_delete_codepoint", <<Range(cp, cp)>>, <<>>,
                     ClassDeleteCodepoint(cls, cp))

DoClassDeleteRange ==
   /\ cpc = "ok"
   /\ nops < MaxOps
   /\ \E range \in Ranges :
         ClassReturn("class_delete_range", <<range>>, <<>>,
                     ClassDeleteRange(cls, range))

DoClassUnion ==
   /\ cpc = "ok"
   /\ nops < MaxOps
   /\ \E right \in Operands :
         ClassReturn("class_union", <<>>, <<right>>, ClassUnion(cls, right))

DoClassDifference ==
   /\ cpc = "ok"
   /\ nops < MaxOps
   /\ \E right \in Operands :
         ClassReturn("class_difference", <<>>, <<right>>,
                     ClassDifference(cls, right))

DoClassIntersection ==
   /\ cpc = "ok"
   /\ nops < MaxOps
   /\ \E right \in Operands :
         ClassReturn("class_intersection", <<>>, <<right>>,
                     ClassIntersection(cls, right))

ClassNext ==
   \/ DoClassInsertCodepoint
   \/ DoClassInsertRange
   \/ DoClassDeleteCodepoint
   \/ DoClassDeleteRange
   \/ DoClassUnion
   \/ DoClassDifference
   \/ DoClassIntersection

ClassSpec == ClassInit /\ [][ClassNext]_vars

\* ------------------------------------------------------------------------
\* The operations of u8_translate.h on one code: u8_new and u8_encode into
\* an array, then u8_decode of the array; or u8_decode of a given string
\* ------------------------------------------------------------------------

\* the codepoints given to u8_new: those up to 0x10FFFF within U8Window of
\* a value at which ByteLen, the encoders or the decoders change case
U8Codepoints ==
   {cp \in UNION {(e - U8Window) .. (e + U8Window) :
                    e \in {0, 128, 2048, 3840, 65535, 65536, 262144,
                           1114112}} :
       0 <= cp /\ cp <= 1114111}

\* the strings given to u8_decode, of an ASCII byte, two continuation
\* bytes, and a lead byte of each length
U8Strings == Strings({97, 128, 191, 195, 226, 240}, U8MaxBytes) \ {<<>>}

\* the engine and the class are idle
U8Init ==
   /\ ShreOff
   /\ pname = "p_star"
   /\ input = <<>>
   /\ pc = "off"
   /\ str = 1
   /\ nbr = 0
   /\ stack = <<>>
   /\ groups = <<>>
   /\ match = <<>>
   /\ cls = ClassNew
   /\ cpc = "off"
   /\ cprev = ClassNew
   /\ cop = NoOp
   /\ nops = 0
   /\ ApiOff
   /\ \/ /\ ucp \in U8Codepoints
         /\ ucode = U8New(ucp)
         /\ ubuf = <<>>
         /\ upc = "new"
      \/ /\ ucp = -1
         /\ ucode = U8New(0)
         /\ ubuf \in U8Strings
         /\ upc = "string"

\* u8_encode(code, write) of the code u8_new made
DoU8Encode ==
   /\ upc = "new"
   /\ ubuf' = U8Encode(ucode).buf
   /\ ucode' = U8Encode(ucode).code
   /\ upc' = "encoded"
   /\ UNCHANGED <<evars, cvars, avars, svars, ucp>>

\* u8_decode(string) of the array written or given
DoU8Decode ==
   /\ upc \in {"encoded", "string"}
   /\ ucode' = U8Decode(ubuf, 1)
   /\ upc' = "decoded"
   /\ UNCHANGED <<evars, cvars, avars, svars, ubuf, ucp>>

U8Next ==
   \/ DoU8Encode
   \/ DoU8Decode

U8Spec == U8Init /\ [][U8Next]_vars

\* ------------------------------------------------------------------------
\* shre.c: the functions of shre.h called on a compiled pattern and an
\* input, each call run to its return; the scanner scan_new made reads
\* from the start of the input
\* ------------------------------------------------------------------------

\* match_new(groups, names, range_group(groups, 0)->begin - start)
MatchNew(gr) == [groups |-> gr, offset |-> gr[0].b - 1]

\* a function of shre.h returned ret (or the process died, st), leaving
\* the scanner at c
ApiResult(st, ret, c) == [st |-> st, ret |-> ret, curr |-> c]

RECURSIVE ShreSearch(_)
\* shre_search, from the offset str on
ShreSearch(s) ==
   LET Return(r) ==
          IF r.st # "ok" THEN ApiResult(r.st, Returned(<<>>, FALSE), curr)
          ELSE IF r.found
          THEN ApiResult("ok", Returned(<<MatchNew(r.gr)>>, FALSE), curr)
          ELSE IF Deref(input, s) = NUL
          THEN ApiResult("ok", Returned(<<>>, FALSE), curr)
          ELSE ShreSearch(SearchAdvance(s))
   IN Return(TopMatch(s))

\* a test that accepts every end
EndsAnywhere(end) == TRUE

\* the test *(range_group(groups, 0)->end) == '\0' of shre_entire
EndsAtNul(end) == Deref(input, end) = NUL

\* shre_entire
ShreEntire ==
   LET Return(r) ==
          IF r.st # "ok" THEN ApiResult(r.st, Returned(<<>>, FALSE), curr)
          ELSE IF ~r.found
          THEN ApiResult("ok", Returned(<<>>, FALSE), curr)
          ELSE IF EndsAtNul(r.gr[0].e)
          THEN ApiResult("ok", Returned(<<MatchNew(r.gr)>>, FALSE), curr)
          ELSE ApiResult("ok", Returned(<<>>, FALSE), curr)
   IN Return(TopMatch(1))

RECURSIVE QuickSearch(_)
\* quick_search of the source of a pattern, with str at s: shre_compile
\* gives the pattern, which is not NULL; the while loop calls core_match
\* with ++str
QuickSearch(s) ==
   LET Return(r) ==
          IF r.st # "ok" THEN ApiResult(r.st, Returned(<<>>, FALSE), curr)
          ELSE IF r.found
          THEN ApiResult("ok", Returned(<<>>, TRUE), curr)
          ELSE QuickSearch(s + 1)
   IN IF Deref(input, s) = NUL
      THEN ApiResult("ok", Returned(<<>>, FALSE), curr)
      ELSE Return(TopMatch(s + 1))

\* scan_increment with the scanner at c: the position afterwards
ScanIncrement(c) == IF Deref(input, c) # NUL THEN c + 1 ELSE c

RECURSIVE ScanNext(_)
\* scan_next with the scanner at c: core_match sets sc->curr to the end
\* of a match through its back argument
ScanNext(c) ==
   LET Return(r) ==
          IF r.st # "ok" THEN ApiResult(r.st, Returned(<<>>, FALSE), c)
          ELSE IF r.found
          THEN ApiResult("ok", Returned(<<MatchNew(r.gr)>>, FALSE),
                         IF c = r.end THEN ScanIncrement(r.end) ELSE r.end)
          ELSE IF Deref(input, c) = NUL
          THEN ApiResult("ok", Returned(<<>>, FALSE), c)
          ELSE ScanNext(c + 1)
   IN Return(TopMatch(c))

\* start_regex_engine, shre_compile of the source, scan_new(pattern, input)
ApiInit ==
   /\ ShreOff
   /\ pname \in DOMAIN Patterns
   /\ input \in Inputs
   /\ pc = "off"
   /\ str = 1
   /\ nbr = 0
   /\ stack = <<>>
   /\ groups = <<>>
   /\ match = <<>>
   /\ cls = ClassNew
   /\ cpc = "off"
   /\ cprev = ClassNew
   /\ cop = NoOp
   /\ nops = 0
   /\ U8Off
   /\ acall = "none"
   /\ aret = Returned(<<>>, FALSE)
   /\ curr = 1
   /\ nscan = 0
   /\ apc = "ok"

\* the state after the call of name that gave r
ApiReturn(name, r) ==
   /\ acall' = name
   /\ aret' = r.ret
   /\ curr' = r.curr
   /\ apc' = r.st
   /\ UNCHANGED <<evars, cvars, uvars, svars>>

DoShreEntire ==
   /\ apc = "ok"
   /\ ApiReturn("shre_entire", ShreEntire)
   /\ UNCHANGED nscan

DoQuickSearch ==
   /\ apc = "ok"
   /\ ApiReturn("quick_search", QuickSearch(1))
   /\ UNCHANGED nscan

\* scan_next; the caller stops asking when it has been given more matches
\* than the input has positions, the terminator included
DoScanNext ==
   /\ apc = "ok"
   /\ nscan <= Len(input) + 1
   /\ ApiReturn("scan_next", ScanNext(curr))
   /\ nscan' = IF ScanNext(curr).ret.match # <<>> THEN nscan + 1 ELSE nscan

ApiNext ==
   \/ DoShreEntire
   \/ DoQuickSearch
   \/ DoScanNext

ApiSpec == ApiInit /\ [][ApiNext]_vars

\* ------------------------------------------------------------------------
\* Properties of the search and of the matching functions
\* ------------------------------------------------------------------------

\* the atom the next atom_match runs; defined when AtTopAtom holds
TopAtom == CurrBranch[BtsTop(stack).index + 1]

\* the top-level branch_match is about to call atom_match
AtTopAtom ==
   /\ pc = "branch"
   /\ stack # <<>>
   /\ BtsTop(stack).index # Len(CurrBranch)

\* C1: shre_search returns the match of the first offset 0, 1, 2, ... at
\* which core_match succeeds, the terminator included: no smaller offset
\* matches, and NULL is returned only when core_match fails at every offset.
C1_LeftmostFirst ==
   /\ pc = "found" =>
         /\ \A o \in 1 .. str - 1 : ~TopMatch(o).found
         /\ TopMatch(str).found
         /\ match = <<[groups |-> TopMatch(str).gr, offset |-> str - 1]>>
   /\ pc = "nomatch" =>
         /\ match = <<>>
         /\ str = Len(input) + 1
         /\ \A o \in 1 .. Len(input) + 1 : ~TopMatch(o).found

\* C1 witness: a match was returned for an offset after two failed offsets
C1_Witness == pc = "found" /\ str >= 3

\* C2: after a successful match in which a quantified capturing group took
\* part with at least one iteration, the slot of the group holds the
\* substring of the last successful iteration.  In a(b|c)*d the match is
\* a, k iterations of one byte, d: for k >= 1 slot 1 is the byte before d.
C2_LastIterationKept ==
   (pname = "p_star" /\ pc = "found"
      /\ groups[0].e - groups[0].b > 2) =>
         groups[1] = [b |-> groups[0].e - 2, e |-> groups[0].e - 1]

\* C3: after a successful top-level match every set slot i >= 1 lies
\* inside slot 0.
C3_CapturesInsideMatch ==
   pc = "found" =>
      \A i \in DOMAIN groups \ {0} :
         groups[i].b # 0 =>
            /\ groups[0].b <= groups[i].b
            /\ groups[i].b <= groups[i].e
            /\ groups[i].e <= groups[0].e

\* C4: a step that runs a Subroutine atom (first entry, failure, or
\* re-entry through the frame that keeps its inner stack and snapshot)
\* leaves every slot of the caller's capture array as it was.
C4_SubroutineKeepsCaptures ==
   [][(AtTopAtom /\ TopAtom.type = "Subroutine") => groups' = groups]_vars

\* C4 witness: the engine is about to backtrack into a subroutine call
\* whose snapshot differs from the caller's captures
C4_Witness ==
   /\ AtTopAtom
   /\ TopAtom.type = "Subroutine"
   /\ BtsTop(stack).recursive
   /\ BtsTop(stack).nest # <<>>
   /\ BtsTop(stack).nest # <<groups>>

\* C5: running an Atomic atom leaves no re-entry frame on the enclosing
\* stack: the frames it pushed are plain successor frames, so a later
\* failure cannot resume the nested core; (?>(a+)+)b finds no match in
\* aaaaX.
C5_AtomicNoReentry ==
   [][ /\ (AtTopAtom /\ TopAtom.type = "Atomic" /\ pc' = "branch") =>
             \A i \in Len(stack) .. Len(stack') :
                /\ ~stack'[i].recursive
                /\ stack'[i].inner = <<>>
                /\ stack'[i].index = TopAtom.index + 1
       /\ (pname = "p_atomic"
             /\ input = <<Ch.a, Ch.a, Ch.a, Ch.a, Ch.X>>) => pc' # "found"
     ]_vars

\* C5 witness: the atomic group of (?>(a+)+)b has matched aaaa and the
\* literal b is about to fail at X
C5_Witness ==
   /\ pname = "p_atomic"
   /\ input = <<Ch.a, Ch.a, Ch.a, Ch.a, Ch.X>>
   /\ AtTopAtom
   /\ TopAtom.type = "String"
   /\ BtsTop(stack).str = 5

\* C6: matching (?R)?a against aaa terminates and returns the match at
\* offset 0 that covers aaa.
C6_RecursionTerminates ==
   (pname = "p_rec" /\ input = <<Ch.a, Ch.a, Ch.a>>) =>
      /\ pc # "overflow"
      /\ pc \in {"found", "nomatch"} =>
            match = <<[groups |-> (0 :> [b |-> 1, e |-> 4]), offset |-> 0]>>

\* C7: slot 0 is nil during the whole top-level match and set when it
\* ends, and a Backreference atom run while its slot is nil matches
\* nothing: the only frame it may leave is the successor frame of the
\* repetitions counted before, at the position it started from.
C7_UnsetReferenceFails ==
   /\ [](pc = "branch" => groups[0] = NilCap)
   /\ [](pc = "found" => groups[0].b # 0)
   /\ [][(AtTopAtom /\ TopAtom.type = "Backreference"
            /\ groups[TopAtom.ref] = NilCap) =>
         stack' = IF BtsTop(stack).matches >= TopAtom.lo
                     /\ BtsTop(stack).matches <= TopAtom.hi
                  THEN BtsPush(BtsPop(stack), TopAtom.index + 1,
                               BtsTop(stack).str, 0, FALSE, <<>>, 0)
                  ELSE BtsPop(stack)]_vars

\* C7 witness: a backreference to group 0 is about to run
C7_Witness ==
   /\ AtTopAtom
   /\ TopAtom.type = "Backreference"
   /\ TopAtom.ref = 0

\* ------------------------------------------------------------------------
\* Properties of the class operations
\* ------------------------------------------------------------------------

\* the codepoints class_search finds in a class
Members(tree) == {cp \in 0 .. MaxCp + 1 : ClassSearch(tree, cp)}

\* every range has lo <= hi and starts at least two above the end of the
\* range before it
WellFormedRanges(rs) ==
   /\ \A i \in 1 .. Len(rs) : rs[i].lo <= rs[i].hi
   /\ \A i \in 1 .. Len(rs) - 1 : rs[i + 1].lo >= rs[i].hi + 2

\* the range argument of the last operation
LastRange == cop.range[1]

\* C8: after any sequence of insertions, deletions, unions and differences
\* on a class created empty, the ranges of a non-empty class in order have
\* lo <= hi, are strictly increasing and disjoint, and no two neighbours
\* are adjacent (next.lo >= hi + 2).
C8_RangesWellFormed ==
   (cpc = "ok" /\ ~EmptyTree(cls)) => WellFormedRanges(InOrder(cls))

\* C9: class_insert_range completes, and afterwards class_search finds
\* exactly the codepoints that were members before or lie in [lo, hi].
C9_InsertRangeAddsMembers ==
   cop.name = "class_insert_range" =>
      /\ cpc = "ok"
      /\ Members(cls) =
            Members(cprev) \cup (LastRange.lo .. LastRange.hi)

\* C10: after class_delete_range or class_delete_codepoint class_search
\* finds no codepoint of [lo, hi] and finds the other codepoints as
\* before; a deletion strictly inside one range puts the two remainders
\* in its place; the deletion of a codepoint that is not a member leaves
\* the ranges as they were.
C10_DeleteRangeRemovesMembers ==
   cop.name \in {"class_delete_range", "class_delete_codepoint"} =>
      /\ cpc = "ok"
      /\ Members(cls) =
            Members(cprev) \ (LastRange.lo .. LastRange.hi)
      /\ \A i \in 1 .. Len(InOrder(cprev)) :
            (/\ InOrder(cprev)[i].lo < LastRange.lo
             /\ LastRange.hi < InOrder(cprev)[i].hi)
            => InOrder(cls) =
                  SubSeq(InOrder(cprev), 1, i - 1)
                  \o <<Range(InOrder(cprev)[i].lo, LastRange.lo - 1),
                       Range(LastRange.hi + 1, InOrder(cprev)[i].hi)>>
                  \o SubSeq(InOrder(cprev), i + 1, Len(InOrder(cprev)))
      /\ (LastRange.lo = LastRange.hi /\ LastRange.lo \notin Members(cprev))
         => InOrder(cls) = InOrder(cprev)

\* C11: class_union(L, R) completes, and afterwards the members of L are
\* exactly the codepoints that were in L or are in R; the union of a class
\* with a class of the same ranges leaves the ranges of L as they were.
\* (R is passed by value here: the code takes it as const and writes only
\* through left.)
C11_UnionAddsMembers ==
   cop.name = "class_union" =>
      /\ cpc = "ok"
      /\ Members(cls) = Members(cprev) \cup Members(cop.right[1])
      /\ InOrder(cop.right[1]) = InOrder(cprev)
         => InOrder(cls) = InOrder(cprev)

\* C12: class_difference(L, R) completes, and afterwards the members of L
\* are exactly the codepoints that were in L and are not in R; an empty L
\* stays empty, and the difference of a class with a class of the same
\* ranges is the empty class.
C12_DifferenceRemovesMembers ==
   cop.name = "class_difference" =>
      /\ cpc = "ok"
      /\ Members(cls) = Members(cprev) \ Members(cop.right[1])
      /\ EmptyTree(cprev) => EmptyTree(cls)
      /\ InOrder(cop.right[1]) = InOrder(cprev) => EmptyTree(cls)

\* C13: after class_intersection(L, R) the members of L are exactly the
\* codepoints that were in both L and R.
C13_IntersectionKeepsCommon ==
   cop.name = "class_intersection" =>
      /\ cpc = "ok"
      /\ Members(cls) = Members(cprev) \cap Members(cop.right[1])

\* C14: class_cardinality of a class built by the public operations is the
\* number of distinct codepoints class_search finds in it, and for every
\* such class A and every operand B
\* cardinality(A \cup B) + cardinality(A \cap B)
\*    = cardinality(A) + cardinality(B).
C14_CardinalityCountsMembers ==
   cpc = "ok" =>
      /\ ClassCardinality(cls) = Cardinality(Members(cls))
      /\ \A B \in Operands :
            /\ ClassUnion(cls, B).st = "ok"
            /\ ClassCardinality(ClassUnion(cls, B).tree)
               + ClassCardinality(ClassIntersection(cls, B).tree)
               = ClassCardinality(cls) + ClassCardinality(B)

\* C15: class_insert_codepoint of a codepoint that is already a member,
\* the lo or hi endpoint of a range included, completes and leaves the
\* ranges, class_size and class_cardinality as they were.
C15_InsertMemberNoChange ==
   (/\ cop.name = "class_insert_codepoint"
    /\ LastRange.lo \in Members(cprev)) =>
      /\ cpc = "ok"
      /\ InOrder(cls) = InOrder(cprev)
      /\ ClassSize(cls) = ClassSize(cprev)
      /\ ClassCardinality(cls) = ClassCardinality(cprev)

\* ------------------------------------------------------------------------
\* Properties of the UTF-8 translation
\* ------------------------------------------------------------------------

\* C16: for every codepoint c <= 0x10FFFF, u8_decode of the bytes u8_encode
\* wrote for c gives back c and consumes exactly bytelen(c) bytes, bytelen
\* being 1, 2, 3, 4 for c below 0x80, below 0x800, below 0x10000, and from
\* 0x10000 on.
C16_EncodeDecodeRoundTrip ==
   (upc = "decoded" /\ ucp >= 0) =>
      /\ ucode.codepoint = ucp
      /\ ucode.end - ucode.begin =
            IF ucp < 128 THEN 1 ELSE IF ucp < 2048 THEN 2
            ELSE IF ucp < 65536 THEN 3 ELSE 4

\* C17: u8_decode of a malformed sequence, one that starts with a
\* continuation byte or with a lead byte of an n-byte sequence whose next
\* n - 1 bytes are not all continuation bytes, gives the codepoint
\* ErrorPoint and an end one byte after the begin.
C17_MalformedConsumesOneByte ==
   (/\ upc = "decoded"
    /\ ucp = -1
    /\ \/ IsCont(ubuf[1])
       \/ \E n \in 2 .. 4 :
             /\ ubuf[1] \in <<192, 224, 240>>[n - 1]
                          .. <<223, 239, 247>>[n - 1]
             /\ \E i \in 2 .. n : ~IsCont(ByteAt(ubuf, i))) =>
      /\ ucode.codepoint = ErrorPoint
      /\ ucode.end = ucode.begin + 1

\* ------------------------------------------------------------------------
\* Properties of the functions of shre.h
\* ------------------------------------------------------------------------

\* C18: repeated calls of scan_next on one scanner return nil after
\* finitely many matches, at most one for each position of the input:
\* after a zero-length match the read position is one byte after the
\* match, also when the match is at the NUL terminator, so the same empty
\* match is not returned again.
C18_ScanTerminates ==
   /\ nscan <= Len(input) + 1
   /\ (/\ acall = "scan_next"
       /\ apc = "ok"
       /\ aret.match # <<>>
       /\ aret.match[1].groups[0].b = aret.match[1].groups[0].e)
      => curr = aret.match[1].groups[0].e + 1

\* C19: shre_entire returns a match only when the match core_match finds
\* at offset 0 ends exactly at the NUL terminator of the input, and that
\* match is the one returned; when core_match fails at offset 0 or its
\* match ends earlier, shre_entire returns nil.
C19_EntireEndsAtNul ==
   (acall = "shre_entire" /\ apc = "ok") =>
      /\ aret.match # <<>> =>
            /\ TopMatch(1).found
            /\ aret.match[1].groups = TopMatch(1).gr
            /\ aret.match[1].offset = 0
            /\ aret.match[1].groups[0] = [b |-> 1, e |-> Len(input) + 1]
      /\ (~TopMatch(1).found \/ TopMatch(1).end # Len(input) + 1)
         => aret.match = <<>>

\* C19 witness: shre_entire returned the match of a whole input of two
\* bytes or more
C19_Witness ==
   /\ acall = "shre_entire"
   /\ apc = "ok"
   /\ aret.match # <<>>
   /\ Len(input) >= 2

\* C20: quick_search of the source of a valid pattern returns true exactly
\* when shre_search of the compiled pattern and the same input returns a
\* match, a match that starts at offset 0 included.
C20_QuickSearchIsSearch ==
   (acall = "quick_search" /\ apc = "ok") =>
      (aret.ok <=> (ShreSearch(1).st = "ok"
                    /\ ShreSearch(1).ret.match # <<>>))


\* ------------------------------------------------------------------------
\* the sources given to shre_compile.  A source is the bytes of its text;
\* a source put together of parts has, for each part, the text of the
\* part and what the text stands for: the capturing groups it opens in the
\* order of their opening parentheses (each with its name, <<>> when it
\* has none, and with the text it captures when the part is matched
\* against the input of the part), the group numbers and the group names
\* its backreferences and subroutine calls name, and the targets of its
\* subroutine calls in the order of the calls.
\* ------------------------------------------------------------------------

\* a part of a source
Part(text, opens, on, refs, nrefs, subs) ==
   [text |-> text, groups |-> opens, match |-> on, refs |-> refs,
    nrefs |-> nrefs, subs |-> subs]

\* a capturing group of a part: its name and what it captures
Opens(name, cap) == [name |-> name, cap |-> cap]

\* the parts of the sources with references: groups, backreferences and
\* subroutine calls by number and by name
RefParts ==
   \* (a)
   << Part(<<40, 97, 41>>, <<Opens(<<>>, <<97>>)>>, <<97>>, {}, {}, <<>>),
     \* (?:b)
      Part(<<40, 63, 58, 98, 41>>, <<>>, <<98>>, {}, {}, <<>>),
     \* (?<n>b)
      Part(<<40, 63, 60, 110, 62, 98, 41>>, <<Opens(<<110>>, <<98>>)>>,
          <<98>>, {}, {}, <<>>),
     \* (?<a>b)
      Part(<<40, 63, 60, 97, 62, 98, 41>>, <<Opens(<<97>>, <<98>>)>>,
          <<98>>, {}, {}, <<>>),
     \* \1
      Part(<<92, 49>>, <<>>, <<>>, {1}, {}, <<>>),
     \* \2
      Part(<<92, 50>>, <<>>, <<>>, {2}, {}, <<>>),
     \* (?1)
      Part(<<40, 63, 49, 41>>, <<>>, <<>>, {1}, {}, <<1>>),
     \* (?2)
      Part(<<40, 63, 50, 41>>, <<>>, <<>>, {2}, {}, <<2>>),
     \* \g<n>
      Part(<<92, 103, 60, 110, 62>>, <<>>, <<>>, {}, {<<110>>}, <<>>),
     \* \g<a>
      Part(<<92, 103, 60, 97, 62>>, <<>>, <<>>, {}, {<<97>>}, <<>>),
     \* (?&n)
      Part(<<40, 63, 38, 110, 41>>, <<>>, <<>>, {}, {<<110>>}, <<>>),
     \* ((b)\3)
      Part(<<40, 40, 98, 41, 92, 51, 41>>, <<Opens(<<>>, <<98>>),
          Opens(<<>>, <<98>>)>>, <<>>, {3}, {}, <<>>),
     \* (?:(c)(?&a))
      Part(<<40, 63, 58, 40, 99, 41, 40, 63, 38, 97, 41, 41>>,
          <<Opens(<<>>, <<99>>)>>, <<>>, {}, {<<97>>}, <<>>) >>

\* the parts of the sources with named groups
NameParts ==
   \* (?:x)
   << Part(<<40, 63, 58, 120, 41>>, <<>>, <<120>>, {}, {}, <<>>),
     \* (?<n>a)
      Part(<<40, 63, 60, 110, 62, 97, 41>>, <<Opens(<<110>>, <<97>>)>>,
          <<97>>, {}, {}, <<>>),
     \* (b)
      Part(<<40, 98, 41>>, <<Opens(<<>>, <<98>>)>>, <<98>>, {}, {}, <<>>),
     \* ((?<m>c)d)
      Part(<<40, 40, 63, 60, 109, 62, 99, 41, 100, 41>>, <<Opens(<<>>,
          <<99, 100>>), Opens(<<109>>, <<99>>)>>, <<99, 100>>, {}, {}, <<>>),
     \* (?<n>a|b)*c
      Part(<<40, 63, 60, 110, 62, 97, 124, 98, 41, 42, 99>>,
          <<Opens(<<110>>, <<98>>)>>, <<97, 98, 99>>, {}, {}, <<>>),
     \* (?'k'e)
      Part(<<40, 63, 39, 107, 39, 101, 41>>, <<Opens(<<107>>, <<101>>)>>,
          <<101>>, {}, {}, <<>>),
     \* (?P<q>f)
      Part(<<40, 63, 80, 60, 113, 62, 102, 41>>, <<Opens(<<113>>,
          <<102>>)>>, <<102>>, {}, {}, <<>>) >>

\* the parts of the sources with subroutine calls
SubParts ==
   \* (a)
   << Part(<<40, 97, 41>>, <<Opens(<<>>, <<97>>)>>, <<97>>, {}, {}, <<>>),
     \* (?1)
      Part(<<40, 63, 49, 41>>, <<>>, <<>>, {1}, {}, <<1>>),
     \* (?R)
      Part(<<40, 63, 82, 41>>, <<>>, <<>>, {0}, {}, <<0>>),
     \* ((?1)b)
      Part(<<40, 40, 63, 49, 41, 98, 41>>, <<Opens(<<>>, <<98>>)>>, <<>>,
          {1}, {}, <<1>>) >>

\* the endpoints of the ranges of the classes, each with the codepoint it
\* stands for
Endpoints ==
   \* a
   << Part(<<97>>, <<>>, <<97>>, {}, {}, <<>>),
      \* :
      Part(<<58>>, <<>>, <<58>>, {}, {}, <<>>),
      \* \n
      Part(<<92, 110>>, <<>>, <<10>>, {}, {}, <<>>),
      \* \x3A
      Part(<<92, 120, 51, 65>>, <<>>, <<58>>, {}, {}, <<>>),
      \* \x40
      Part(<<92, 120, 52, 48>>, <<>>, <<64>>, {}, {}, <<>>),
      \* \101
      Part(<<92, 49, 48, 49>>, <<>>, <<65>>, {}, {}, <<>>) >>

\* the longest source in parts
MaxParts == 2

RECURSIVE Cat(_)
\* the text of the parts, one after the other
Cat(parts) ==
   IF parts = <<>> THEN <<>> ELSE Head(parts).text \o Cat(Tail(parts))

RECURSIVE OnText(_)
\* the input the parts match, one after the other
OnText(parts) ==
   IF parts = <<>> THEN <<>> ELSE Head(parts).match \o OnText(Tail(parts))

RECURSIVE Opened(_)
\* the capturing groups the parts open, in the order of their opening
\* parentheses
Opened(parts) ==
   IF parts = <<>> THEN <<>> ELSE Head(parts).groups \o Opened(Tail(parts))

RECURSIVE Calls(_)
\* the targets of the subroutine calls of the parts, in their order
Calls(parts) ==
   IF parts = <<>> THEN <<>> ELSE Head(parts).subs \o Calls(Tail(parts))

\* the names the parts declare
Declared(parts) ==
   {Opened(parts)[i].name : i \in 1 .. Len(Opened(parts))} \ {<<>>}

\* the sequences of one to n of the parts
Phrases(parts, n) ==
   UNION {[1 .. k -> {parts[i] : i \in 1 .. Len(parts)}] : k \in 1 .. n}

\* ten groups without a name, then a reference to the name a
TenGroups == [i \in 1 .. 11 |-> IF i < 11 THEN RefParts[1] ELSE RefParts[10]]

\* sources whose token lists weedeat rewrites: \Q\E, \Qab\E, a*+, \x00*,
\* ba*?
WeedSources ==
   {<<Sym.bs, Sym.Q, Sym.bs, Sym.E>>,
    <<Sym.bs, Sym.Q, Sym.a, Sym.b, Sym.bs, Sym.E>>,
    <<Sym.a, Sym.star, Sym.plus>>,
    <<Sym.bs, Sym.x, Sym.d0, Sym.d0, Sym.star>>,
    <<Sym.b, Sym.a, Sym.star, Sym.q>>}

\* the source (?<name>b) followed by a reference to the name: \g or \k,
\* with the name in <> or in ''
NamedReference(name, letter, open) ==
   <<Sym.lp, Sym.q, Sym.lt>> \o name \o <<Sym.gt, Sym.b, Sym.rp>>
      \o <<Sym.bs, letter, open>> \o name
      \o <<IF open = Sym.lt THEN Sym.gt ELSE Sym.quote>>

\* the pools: sources that fill the table past half its first size and one
\* that does not compile; sources searched; one class with a range; one
\* source with references; one with named groups and the input it
\* matches; one with subroutine calls; one with the sources weedeat
\* rewrites; one with a named group and a reference to its name
Pools ==
   {Pool("cache", {<<97>>, <<98>>, <<40, 97, 41>>, <<97, 42>>, <<97, 98>>,
                   <<40, 97>>}, {}, {}, <<>>),
    Pool("cache", {<<97>>, <<40, 97>>, <<91, 97, 45, 92, 110, 93>>},
         {<<97, 98>>}, {}, <<>>)}
   \cup {Pool("range", {<<Sym.lb>> \o lo.text \o <<Sym.minus>> \o hi.text
                        \o <<Sym.rb>>}, {}, {}, <<lo, hi>>) :
            lo \in {Endpoints[i] : i \in 1 .. Len(Endpoints)},
            hi \in {Endpoints[i] : i \in 1 .. Len(Endpoints)}}
   \cup {Pool("refs", {Cat(ps)}, {}, {}, ps) :
            ps \in Phrases(RefParts, MaxParts) \cup {TenGroups}}
   \cup {Pool("names", {Cat(ps)}, {OnText(ps)}, Declared(ps), ps) :
            ps \in Phrases(NameParts, MaxParts)}
   \cup {Pool("subs", {Cat(ps)}, {}, {}, ps) :
            ps \in Phrases(SubParts, MaxParts + 1)}
   \cup {Pool("tokens", WeedSources, {}, {}, <<>>)}
   \cup {Pool("backrefs", {NamedReference(name, letter, open)}, {}, {name},
               <<>>) :
            name \in {<<Sym.n>>, <<Sym.a>>}, letter \in {Sym.g, Sym.k},
            open \in {Sym.lt, Sym.quote}}

\* ------------------------------------------------------------------------
\* shre.c: the pattern table through start_regex_engine,
\* cleanup_regex_engine and the calls between and around them, each call
\* run to its return.  The caller draws the arguments from its pool and
\* gives shre_search, shre_entire and scan_next a pattern that is in the
\* table, or a stale pointer when there is no table.
\* ------------------------------------------------------------------------

\* the state after a call that left the table tab and shre_er = er
ShreReturn(st, call, tab, er, snc, lv) ==
   /\ lpc' = st
   /\ scall' = [(IF st = "run" THEN call
                  ELSE Called(call.fn, call.regex, call.text, <<>>))
                 EXCEPT !.was = live]
   /\ ptable' = tab
   /\ shre_er' = er
   /\ since' = snc
   /\ live' = lv
   /\ UNCHANGED <<evars, cvars, uvars, avars, pool>>

\* a call that failed an assertion
ShreAssert(fn) ==
   ShreReturn("assert", Called(fn, <<>>, <<>>, <<>>), ptable, shre_er, since,
              live)

\* since after shre_compile returned ret for regex
Compiled(regex, ret) ==
   IF ret = <<>> \/ regex \in {since[i][1] : i \in 1 .. Len(since)}
   THEN since
   ELSE Append(since, <<regex, ret[1]>>)

\* start_regex_engine (the class of word characters it parses is left out)
DoStartRegexEngine ==
   /\ lpc = "run"
   /\ IF ptable # <<>> THEN ShreAssert("start_regex_engine")
      ELSE ShreReturn("run", Called("start_regex_engine", <<>>, <<>>, <<>>),
                      <<ObhashNew>>, shre_er, <<>>, TRUE)

\* a cleanup_regex_engine that frees the table and leaves ptable as it was
DoCleanupKeepsPointer ==
   /\ lpc = "run"
   /\ IF ptable = <<>> THEN ShreAssert("cleanup_regex_engine")
      ELSE ShreReturn("run",
                      Called("cleanup_regex_engine", <<>>, <<>>, <<>>),
                      ptable, shre_er, <<>>, FALSE)

\* cleanup_regex_engine
DoCleanupRegexEngine ==
   /\ lpc = "run"
   /\ IF ptable = <<>> THEN ShreAssert("cleanup_regex_engine")
      ELSE ShreReturn("run",
                      Called("cleanup_regex_engine", <<>>, <<>>, <<>>),
                      <<>>, shre_er, <<>>, FALSE)

\* engine_is_initialized
DoEngineIsInitialized ==
   /\ lpc = "run"
   /\ ShreReturn("run", Called("engine_is_initialized", <<>>, <<>>,
                               ptable # <<>>),
                 ptable, shre_er, since, live)

\* num_patterns
DoNumPatterns ==
   /\ lpc = "run"
   /\ IF ptable = <<>> THEN ShreAssert("num_patterns")
      ELSE ShreReturn("run", Called("num_patterns", <<>>, <<>>,
                                    ptable[1].load),
                      ptable, shre_er, since, live)

\* clear_cache
DoClearCache ==
   /\ lpc = "run"
   /\ IF ptable = <<>> THEN ShreAssert("clear_cache")
      ELSE ShreReturn("run", Called("clear_cache", <<>>, <<>>, <<>>),
                      <<ObhashClear(ptable[1])>>, shre_er, <<>>, live)

\* shre_compile(regex), and quick_search(regex, text) and
\* quick_entire(regex, text), which call shre_compile(regex) first
DoSourceCall ==
   /\ lpc = "run"
   /\ \E regex \in pool.srcs,
         fn \in {"shre_compile", "quick_search", "quick_entire"} :
         \E r \in {ShreCompile(ptable, shre_er, regex)} :
            IF fn = "shre_compile"
            THEN ShreReturn(IF r.st = "ok" THEN "run" ELSE r.st,
                            Called(fn, regex, <<>>, r.ret),
                            r.tab, r.er, Compiled(regex, r.ret), live)
            ELSE \E text \in pool.texts :
                    \E q \in {IF r.st # "ok" \/ r.ret = <<>>
                              THEN [st |-> "ok", ret |-> FALSE]
                              ELSE QuickPattern(r.ret[1], text,
                                                fn = "quick_entire")} :
                       ShreReturn(IF r.st # "ok" THEN r.st
                                  ELSE IF q.st # "ok" THEN q.st ELSE "run",
                                  Called(fn, regex, text, q.ret),
                                  r.tab, r.er, Compiled(regex, r.ret),
                                  live)

\* shre_search(pattern, text), shre_entire(pattern, text) and
\* scan_next(scan_new(pattern, text)), whose loop is the one of shre_search
\* on a scanner that has not been read from
DoPatternCall ==
   /\ lpc = "run"
   /\ \E fn \in {"shre_search", "shre_entire", "scan_next"} :
         IF ptable = <<>> THEN ShreAssert(fn)
         ELSE \E pattern \in ObhashObjects(ptable[1]),
                 text \in pool.texts :
                 LET Return(r) ==
                        ShreReturn(IF r.st = "ok" THEN "run" ELSE r.st,
                                   Called(fn, pattern.regex, text, r.ret),
                                   ptable, shre_er, since, live)
                 IN Return(SearchPattern(pattern, text,
                                         fn = "shre_entire"))

\* match_named_group(match, grname) on the match returned last
DoMatchNamedGroup ==
   /\ lpc = "run"
   /\ scall.fn \in {"shre_search", "shre_entire", "scan_next"}
   /\ scall.ret # <<>>
   /\ \E grname \in pool.names :
         ShreReturn("run",
                    Called("match_named_group", scall.regex,
                           <<scall.text, scall.ret[1], grname>>,
                           MatchNamedGroup(scall.text, scall.ret[1],
                                           grname)),
                    ptable, shre_er, since, live)

ShreInit ==
   /\ pname = "p_aq"
   /\ input = <<>>
   /\ pc = "off"
   /\ str = 1
   /\ nbr = 0
   /\ stack = <<>>
   /\ groups = <<>>
   /\ match = <<>>
   /\ cls = ClassNew
   /\ cpc = "off"
   /\ cprev = ClassNew
   /\ cop = NoOp
   /\ nops = 0
   /\ U8Off
   /\ ApiOff
   /\ pool \in Pools
   /\ ptable = <<>>
   /\ shre_er = "NERROR"
   /\ scall = Called("none", <<>>, <<>>, <<>>)
   /\ since = <<>>
   /\ live = FALSE
   /\ lpc = "run"

ShreNext ==
   \/ DoStartRegexEngine
   \/ DoCleanupRegexEngine
   \/ DoEngineIsInitialized
   \/ DoNumPatterns
   \/ DoClearCache
   \/ DoSourceCall
   \/ DoPatternCall
   \/ DoMatchNamedGroup

ShreSpec == ShreInit /\ [][ShreNext]_vars

\* ------------------------------------------------------------------------
\* compile errors
\* ------------------------------------------------------------------------

\* shre_compile returned NULL
CompileFailed == lpc = "run" /\ scall.fn = "shre_compile" /\ scall.ret = <<>>

\* C21: whenever shre_compile returns NULL, shre_er holds an error code
\* other than NERROR and the table holds no pattern for the source and no
\* more patterns than the sources compiled since the last clear_cache
C21_NullSetsError ==
   CompileFailed =>
      /\ shre_er # "NERROR"
      /\ ObhashFind(ptable[1], scall.regex) = <<>>
      /\ ptable[1].load = Len(since)

\* the last call was shre_compile, quick_search or quick_entire, and it
\* returned
CompileCalled ==
   /\ lpc = "run"
   /\ scall.fn \in {"shre_compile", "quick_search", "quick_entire"}

\* C22: whenever the latest call of shre_compile, quick_search or
\* quick_entire was given a valid regular expression (one the table holds
\* a pattern for after the call), shre_er equals NERROR
C22_ValidLeavesNoError ==
   CompileCalled /\ ObhashFind(ptable[1], scall.regex) # <<>>
      => shre_er = "NERROR"

\* the codepoints the only atom of a pattern accepts, when the atom is a
\* class
Accepted(pattern) ==
   LET atom == Root(pattern.core).branches[1][1]
   IN {cp \in 0 .. 127 : ClassSearch(atom.class[1], cp) # atom.invert}

\* C23: a class [lo-hi] whose endpoints are literals or escapes compiles
\* and holds exactly the codepoints from lo to hi when lo is not greater
\* than hi, and BADRAN is raised only when lo is greater than hi
C23_RangeAcceptsEscapes ==
   lpc = "run" /\ scall.fn = "shre_compile" /\ pool.kind = "range" =>
      LET lo == pool.parts[1].match[1]
          hi == pool.parts[2].match[1]
      IN /\ shre_er = "BADRAN" => lo > hi
         /\ lo <= hi => /\ scall.ret # <<>>
                        /\ Accepted(scall.ret[1]) = lo .. hi

\* some reference of the parts names a group that does not exist: a
\* number greater than the count of the capturing groups, or a name that
\* is not declared
Dangling(parts) ==
   \E i \in 1 .. Len(parts) :
      \/ \E n \in parts[i].refs : n > Len(Opened(parts))
      \/ \E name \in parts[i].nrefs : name \notin Declared(parts)

\* no name is declared by two groups of the parts
DeclaredOnce(parts) ==
   \A i, j \in 1 .. Len(Opened(parts)) :
      Opened(parts)[i].name = Opened(parts)[j].name =>
         i = j \/ Opened(parts)[i].name = <<>>

\* C24: the compilation of a source in parts fails with BADREF exactly when
\* one of its backreferences or subroutine calls, at any depth, names a
\* group that does not exist; a reference to a group opened later is
\* accepted
C24_BadrefIffDangling ==
   /\ lpc = "run"
   /\ scall.fn = "shre_compile"
   /\ pool.kind = "refs"
   /\ DeclaredOnce(pool.parts)
   => ((scall.ret = <<>> /\ shre_er = "BADREF") <=> Dangling(pool.parts))

\* ------------------------------------------------------------------------
\* group numbers and group names
\* ------------------------------------------------------------------------

\* the number of the group the parts declare with the name
NumberOf(parts, name) ==
   CHOOSE k \in 1 .. Len(Opened(parts)) : Opened(parts)[k].name = name

\* C25: for a source in parts matched against the input of its parts, the
\* capturing groups are numbered in the order of their opening
\* parentheses, the name table maps each name to the number of the group
\* declared with it, and match_named_group(name) returns what that group
\* captured
C25_NamedGroupIsCapture ==
   lpc = "run" /\ pool.kind = "names" =>
      /\ scall.fn \in {"shre_search", "shre_entire", "scan_next"}
         /\ scall.ret # <<>>
         => \A k \in 1 .. Len(Opened(pool.parts)) :
               /\ MatchGroupOf(scall.text, scall.ret[1], k)
                     = <<Opened(pool.parts)[k].cap>>
               /\ Opened(pool.parts)[k].name # <<>>
                  => /\ scall.ret[1].names # <<>>
                     /\ ObhashFind(scall.ret[1].names[1],
                                   Opened(pool.parts)[k].name) = <<k>>
      /\ scall.fn = "match_named_group"
         => scall.ret
               = <<Opened(pool.parts)[NumberOf(pool.parts,
                                               scall.text[3])].cap>>

\* ------------------------------------------------------------------------
\* the pattern cache
\* ------------------------------------------------------------------------

\* C26: after any sequence of calls, num_patterns returns the number of
\* distinct sources compiled successfully since the last clear_cache, and
\* shre_compile of a source compiled since then returns the pattern that
\* was returned for it first
C26_CacheCountsSources ==
   lpc = "run" =>
      /\ scall.fn = "num_patterns" => scall.ret = Len(since)
      /\ scall.fn = "shre_compile" /\ scall.ret # <<>>
         => \E i \in 1 .. Len(since) :
               since[i] = <<scall.regex, scall.ret[1]>>

\* num_patterns returned 5: the table was expanded and holds every source
\* of the pool that compiles
C26_Witness ==
   /\ lpc = "run"
   /\ scall.fn = "num_patterns"
   /\ scall.ret = 5
   /\ ptable[1].size > TABLESIZE

\* ------------------------------------------------------------------------
\* the life of the engine
\* ------------------------------------------------------------------------

\* the functions that need the engine started
NeedEngine ==
   {"shre_compile", "shre_search", "shre_entire", "scan_next",
    "num_patterns", "clear_cache"}

\* C27: in every call, engine_is_initialized returns true exactly when
\* start_regex_engine has returned and cleanup_regex_engine has not been
\* called since; shre_compile, shre_search, shre_entire, scan_next,
\* num_patterns and clear_cache fail an assertion when called outside
\* that interval, and start_regex_engine fails one when called inside it
C27_Lifecycle ==
   /\ scall.fn = "engine_is_initialized" => scall.ret = scall.was
   /\ ~scall.was /\ scall.fn \in NeedEngine => lpc = "assert"
   /\ scall.was /\ scall.fn = "start_regex_engine" => lpc = "assert"

\* a function that needs the engine was called after cleanup_regex_engine
\* (shre_er holds the error of a compilation before it) and failed its
\* assertion
C27_Witness ==
   /\ lpc = "assert"
   /\ scall.fn \in NeedEngine
   /\ ~live
   /\ shre_er # "NERROR"

\* ------------------------------------------------------------------------
\* subroutine calls
\* ------------------------------------------------------------------------

RECURSIVE Targets(_, _)
\* the group indexes of the cores the atoms made of SUBROUTINE tokens
\* point to, in the order of the tokens (-1 for an atom left
\* Uninitialized), in a core and the cores nested in it
Targets(pat, cid) ==
   LET core == pat.cores[cid]
       RECURSIVE Scan(_, _)
       Scan(b, i) ==
          IF b > Len(core.branches) THEN <<>>
          ELSE IF i > Len(core.branches[b]) THEN Scan(b + 1, 1)
          ELSE LET atom == core.branches[b][i]
               IN (CASE atom.type = "Subroutine" ->
                          <<pat.cores[atom.group].index>>
                     [] atom.type = "Uninitialized" -> <<-1>>
                     [] AtomHasGroup(atom) -> Targets(pat, atom.group)
                     [] OTHER -> <<>>)
                  \o Scan(b, i + 1)
   IN Scan(1, 1)

\* C29: in the pattern compiled of a source in parts, every subroutine
\* call, at any depth and however many there are, is an atom of type
\* Subroutine that points to the core of its target, and no atom is left
\* Uninitialized
C29_SubroutinesResolved ==
   /\ lpc = "run"
   /\ scall.fn = "shre_compile"
   /\ pool.kind = "subs"
   /\ scall.ret # <<>>
   => Targets(scall.ret[1].core, 1) = Calls(pool.parts)

\* C28: after a backtrack the atoms that run see the captures of the path
\* that leads to the resumption frame and none of an abandoned path.  On
\* such a path every capture a backreference reads was completed at or
\* before the position the backreference is run at (no pattern of the table
\* refers to a group inside a look-ahead), and in a match of (a|b)*\1 the
\* capture of group 1 is the last iteration, which ends where \1 begins.
C28_BacktrackRestoresCaptures ==
   /\ (AtTopAtom /\ TopAtom.type = "Backreference"
         /\ groups[TopAtom.ref].b # 0)
      => groups[TopAtom.ref].e <= BtsTop(stack).str
   /\ (pc = "found" /\ pname = "p_starref")
      => LET g == match[1].groups
         IN /\ g[1].b # 0
            /\ g[1].e = g[0].e - (g[1].e - g[1].b)

\* the number of consecutive codepoints from position p of the input that
\* the class of the atom accepts, capped at range.hi and stopping at NUL
ClassRun(atom, p) ==
   LET Fits(j) ==
          /\ j <= atom.hi
          /\ \A i \in 0 .. j - 1 :
                /\ Deref(input, p + i) # NUL
                /\ ClassSearch(atom.class[1], Deref(input, p + i))
       Most(j) == Fits(j) /\ ~Fits(j + 1)
   IN CHOOSE j \in 0 .. Len(input) + 1 - p : Most(j)

\* the successor frames of an atom at position p for lo .. k codepoints,
\* fewest first
SuccessorFrames(atom, p, k) ==
   [n \in 1 .. k + 1 - atom.lo |->
      BtsTop(BtsPush(<<>>, atom.index + 1, p + atom.lo + n - 1, 0, FALSE,
                     <<>>, 0))]

\* C30: atom_match of a greedy Class atom with range [lo, hi] at position p
\* pops the top frame and pushes one frame {index + 1, p + j} for each j
\* from lo to k in increasing j, where k is the number of codepoints from p
\* that the class accepts, capped at hi and stopping at NUL; it pushes
\* nothing when k < lo.
C30_GreedyClassFrames ==
   [][(AtTopAtom /\ TopAtom.type = "Class" /\ TopAtom.greedy /\ ~TopAtom.invert)
      => /\ pc' = "branch"
         /\ groups' = groups
         /\ stack' = BtsPop(stack) \o
                     SuccessorFrames(TopAtom, BtsTop(stack).str,
                                     ClassRun(TopAtom, BtsTop(stack).str))]_vars

\* a{1,2}b at two a: the frames after one and after two a, the longer on top
C30_Witness ==
   /\ pname = "p_rng"
   /\ pc = "branch"
   /\ Len(stack) = 2
   /\ stack[1].index = 1 /\ stack[2].index = 1
   /\ stack[2].str = stack[1].str + 1
   /\ stack[1].str = str + 1
   /\ Deref(input, str + 2) = Ch.b

\* ------------------------------------------------------------------------
\* lazy quantifiers
\* ------------------------------------------------------------------------

\* C31: when lazy_match runs an atom with range [lo, hi] from a frame with
\* c repetitions done, lo <= c <= hi, the frame left on top is the
\* continuation {index + 1, position of the frame}, also when that
\* position is the NUL terminator.
C31_LazyOffersContinuation ==
   [][(AtTopAtom /\ TopAtom.type = "Class" /\ ~TopAtom.greedy
         /\ BtsTop(stack).matches >= TopAtom.lo
         /\ BtsTop(stack).matches <= TopAtom.hi)
      => /\ stack' # <<>>
         /\ BtsTop(stack') =
               BtsTop(BtsPush(<<>>, TopAtom.index + 1, BtsTop(stack).str,
                              0, FALSE, <<>>, 0))]_vars

\* the pattern with every quantifier greedy
MadeGreedy(pat) ==
   [cores |->
      [c \in DOMAIN pat.cores |->
         Core(pat.cores[c].index,
              [b \in DOMAIN pat.cores[c].branches |->
                 [i \in DOMAIN pat.cores[c].branches[b] |->
                    AtomSetGreedy(pat.cores[c].branches[b][i], TRUE)]])]]

\* core_match at offset o of the input on the pattern made greedy
GreedyTopMatch(o) ==
   CoreMatch([pat |-> MadeGreedy(Pat), input |-> input, head |-> 1, d |-> 0],
             1, o, <<>>, <<>>, <<>>, 0)

\* C32: core_match succeeds on a pattern with a lazy quantifier at exactly
\* the offsets where it succeeds on the same pattern with the quantifier
\* greedy: the search that found a match at an offset finds one there with
\* the greedy quantifier, and the search that found none finds none with
\* the greedy quantifier at any offset.
C32_LazyMatchesWhenGreedyDoes ==
   /\ pc = "found" => GreedyTopMatch(str).found
   /\ pc = "nomatch" =>
         \A o \in 1 .. Len(input) + 1 : ~GreedyTopMatch(o).found

\* ------------------------------------------------------------------------
\* core_match called by match_group: the outer stack and the capture slot
\* ------------------------------------------------------------------------

\* the top-level greedy_match is about to call match_group: the atom is a
\* Group, fewer than range.hi repetitions are done and the position is
\* not the NUL terminator
AtGroupCall ==
   /\ AtTopAtom
   /\ TopAtom.type = "Group"
   /\ TopAtom.greedy
   /\ BtsTop(stack).matches < TopAtom.hi
   /\ Deref(input, BtsTop(stack).str) # NUL

\* the stack greedy_match hands to match_group as the outer stack
GroupOuter ==
   IF BtsTop(stack).matches >= TopAtom.lo
   THEN BtsPush(BtsPop(stack), TopAtom.index + 1, BtsTop(stack).str, 0,
                FALSE, <<>>, 0)
   ELSE BtsPop(stack)

\* the core_match call match_group makes
GroupCall ==
   CoreMatch(Ctx, TopAtom.group, BtsTop(stack).str, <<GroupOuter>>,
             <<groups>>, BtsTop(stack).inner, BtsTop(stack).nbr)

\* what the for (;;) of that call ends with: the end branch_match returned,
\* the local stack and the branch number
GroupLoop ==
   CoreLoop([Ctx EXCEPT !.d = @ + 1], Pat.cores[TopAtom.group],
            BtsTop(stack).nbr,
            IF BtsTop(stack).inner = <<>>
            THEN PushStart(<<>>, BtsTop(stack).str)
            ELSE BtsTop(stack).inner[1],
            CoreEntryGroups(Pat, TopAtom.group, <<groups>>),
            BtsTop(stack).str)

\* the frame {0, str, 0, recursive = true, inner, nbr}
ReentryFrame(inner, n) ==
   BtsTop(BtsPush(<<>>, 0, BtsTop(stack).str, 0, TRUE, inner, n))

\* C33 as stated: a successful core_match with an outer stack pushes one
\* recursive frame, with the local stack as inner and the current branch
\* number when the local stack is not empty and with inner = nil
\* otherwise; a failed one leaves the outer stack as it was.
C33_TwoCaseReentry ==
   (AtGroupCall /\ GroupCall.st = "ok") =>
      IF ~GroupCall.found THEN GroupCall.outer = GroupOuter
      ELSE GroupCall.outer =
              Append(GroupOuter,
                     IF GroupLoop.stack # <<>>
                     THEN ReentryFrame(<<GroupLoop.stack>>, GroupLoop.nbr)
                     ELSE ReentryFrame(<<>>, 0))

\* C33 amended: a successful core_match with an outer stack pushes one
\* recursive frame: with the local stack as inner and the current branch
\* number when the local stack is not empty; with a stack that holds the
\* start frame of the next branch as inner and the next branch number when
\* the local stack is empty and the core has a further branch; with inner
\* = nil otherwise.  A failed one leaves the outer stack as it was.
C33_ReentryFrame ==
   (AtGroupCall /\ GroupCall.st = "ok") =>
      IF ~GroupCall.found THEN GroupCall.outer = GroupOuter
      ELSE GroupCall.outer =
              Append(GroupOuter,
                     IF GroupLoop.stack # <<>>
                     THEN ReentryFrame(<<GroupLoop.stack>>, GroupLoop.nbr)
                     ELSE IF GroupLoop.nbr + 1
                                < Len(Pat.cores[TopAtom.group].branches)
                     THEN ReentryFrame(
                             <<PushStart(<<>>, BtsTop(stack).str)>>,
                             GroupLoop.nbr + 1)
                     ELSE ReentryFrame(<<>>, 0))

\* a group matched with its first branch, its local stack is empty and it
\* has a second branch
C33_Witness ==
   /\ AtGroupCall
   /\ GroupCall.st = "ok"
   /\ GroupCall.found
   /\ GroupLoop.stack = <<>>
   /\ GroupLoop.nbr = 0
   /\ Len(Pat.cores[TopAtom.group].branches) = 2

\* ------------------------------------------------------------------------
\* core_match: the capture slot of a core whose call fails
\* ------------------------------------------------------------------------

\* the group index of the core match_group calls
GroupSlot == Pat.cores[TopAtom.group].index

\* a first entry of core_match on a nested core at position p with the
\* captures as they are
FirstEntry(cid, p) == CoreMatch(Ctx, cid, p, <<>>, <<groups>>, <<>>, 0)

\* C34: core_match on a capturing core nulls the slot of the core on entry
\* and writes it only at FoundMatch, so after a call that returns nil,
\* first entry or re-entry with a preserved inner stack, the slot is nil
\* whatever it held before the call.
C34_FailedCallSlotNil ==
   /\ (AtGroupCall /\ GroupSlot >= 0 /\ GroupCall.st = "ok"
         /\ ~GroupCall.found)
      => GroupCall.gr[GroupSlot] = NilCap
   /\ pc \in {"branch", "found"} =>
         \A cid \in 2 .. Len(Pat.cores), p \in 1 .. Len(input) + 1 :
            FirstEntry(cid, p).st = "ok" /\ ~FirstEntry(cid, p).found
               /\ Pat.cores[cid].index >= 0
            => FirstEntry(cid, p).gr[Pat.cores[cid].index] = NilCap

\* a re-entry with a preserved inner stack fails while the slot holds the
\* capture of the iteration before
C34_Witness ==
   /\ AtGroupCall
   /\ GroupSlot >= 0
   /\ BtsTop(stack).inner # <<>>
   /\ groups[GroupSlot] # NilCap
   /\ GroupCall.st = "ok"
   /\ ~GroupCall.found

\* ------------------------------------------------------------------------
\* ownership of the nest snapshots
\* ------------------------------------------------------------------------

\* C35: an inner stack or nest snapshot stored on a recursive frame is
\* released once and never read or written after it was released, also
\* when a quantified subroutine atom is re-entered and then iterates
\* again: no step of a match uses a snapshot that is no longer its own.
C35_NoUseAfterRelease == pc # "ub"

\* ------------------------------------------------------------------------
\* weedeat's (?:[class]|$) at the end of the input
\* ------------------------------------------------------------------------

\* C36: a negated class that does not contain NUL is compiled as
\* (?:[class]|$) and matches with zero width at the NUL terminator: the
\* search of a[^b] finds a match in every input that ends with a.
C36_ClassMatchesAtTerminator ==
   (pname = "p_denul" /\ input # <<>> /\ input[Len(input)] = Ch.a)
   => pc # "nomatch"

\* ------------------------------------------------------------------------
\* the token list parse_regex hands to build_core
\* ------------------------------------------------------------------------

\* the functions of shre.h that take a source
SourceFns == {"shre_compile", "quick_search", "quick_entire"}

\* the call returned last parsed its source, on a live engine, without an
\* error
ParsedSource ==
   /\ scall.fn \in SourceFns
   /\ scall.was
   /\ ParseRegex(scall.regex).st = "ok"
   /\ ~ParseRegex(scall.regex).null

\* the token list of the source of the call returned last
SourceTokens == ParseRegex(scall.regex).tokens

RECURSIVE FactoryReady(_)
\* what _build_core asserts of a token list, at every nesting depth: the
\* list is not empty, no token is a LITERAL, a POSSESSIVE or a NAME, and a
\* RANGE follows an atom and a LAZY a RANGE of the same branch
FactoryReady(list) ==
   /\ list # <<>>
   /\ \A i \in 1 .. Len(list) :
         /\ list[i].flag \notin {"LITERAL", "POSSESSIVE", "NAME"}
         /\ list[i].flag = "RANGE" =>
               /\ i > 1
               /\ list[i - 1].flag \notin {"ALTERNATOR", "EMPTY", "RANGE",
                                           "LAZY"}
         /\ list[i].flag = "LAZY" => i > 2 /\ list[i - 1].flag = "RANGE"
         /\ list[i].flag \in {"GROUP", "ATOMIC", "LOOKAHEAD", "NLOOKAHEAD"}
               => FactoryReady(list[i].data)

\* C37: every token list a successful parse returns meets the
\* preconditions of the factory at every nesting depth, so that no
\* assertion of build_core fails in the call.
C37_FactoryPreconditions ==
   ParsedSource =>
      /\ FactoryReady(SourceTokens)
      /\ BuildCore(SourceTokens).st # "assert"
      /\ lpc # "assert"

\* C38: weedeat is idempotent: weedeat applied to the list weedeat
\* returned for a source gives the same tokens in the same order.
C38_WeedeatIdempotent ==
   ParsedSource =>
      /\ Weedeat(SourceTokens).st = "ok"
      /\ Weedeat(SourceTokens).list = SourceTokens

\* ------------------------------------------------------------------------
\* references to a group by its name
\* ------------------------------------------------------------------------

\* C39: for every name the grammar allows, also one made only of the
\* letters a-f, \g<name>, \g'name', \k<name> and \k'name' compile to a
\* backreference to the group declared with the name: the source
\* (?<name>b) followed by the reference compiles to group 1 followed by a
\* reference to group 1.
C39_NamedReferenceCompiles ==
   (pool.kind = "backrefs" /\ scall.fn = "shre_compile" /\ scall.was) =>
      /\ lpc = "run"
      /\ scall.ret # <<>>
      /\ Root(scall.ret[1].core).branches
            = << <<CoreAtom(0, 2, 0), ReferenceAtom(1, 1)>> >>

\* ------------------------------------------------------------------------
\* the word anchor
\* ------------------------------------------------------------------------

\* the character at position p of the input is a word character; the
\* start of the input and the terminator are none
WordAt(p) ==
   p >= 1 /\ p <= Len(input) /\ IsWordCharacter(input[p])

\* one of the characters before and at position p is a word character and
\* the other is not
WordBoundary(p) == WordAt(p - 1) # WordAt(p)

\* C40: the word anchor is zero-width; without invert it succeeds at a
\* position exactly when one of the characters before and at the position
\* is a word character and the other is not, the start of the input and
\* the terminator counting as non-word, and with invert exactly when it
\* would fail without: atom_match replaces the top frame by the frame of
\* the next atom at the same position on success and pops it on failure.
C40_WordAnchor ==
   [][(AtTopAtom /\ TopAtom.type = "WordAnchor")
      => /\ pc' = "branch"
         /\ groups' = groups
         /\ stack' = IF WordBoundary(BtsTop(stack).str) # TopAtom.invert
                     THEN BtsPush(BtsPop(stack), TopAtom.index + 1,
                                  BtsTop(stack).str, 0, FALSE, <<>>, 0)
                     ELSE BtsPop(stack)]_vars

\* a\b succeeded at the terminator after a word character that follows a
\* character that is none
C40_Witness ==
   /\ pname = "p_awordb"
   /\ pc = "branch"
   /\ stack # <<>>
   /\ BtsTop(stack).index = 2
   /\ BtsTop(stack).str = Len(input) + 1
   /\ Len(input) >= 2
   /\ input[Len(input) - 1] = Ch.dash

====
